---- MODULE Spec2Model ----
(***************************************************************************)
(* Migration engine of lean_services: metadata/data_loader.py (keyed       *)
(* checkpoints, table jobs) and metadata/data_loader_ext.py (table and     *)
(* query jobs, offset and keyset pagination).                              *)
(*                                                                         *)
(* Spec       one job descriptor run repeatedly (migrate_table and         *)
(*            migrate_entry), with process crashes between runs.           *)
(* SpecStore  the checkpoint file, its temp file and its lock, used by     *)
(*            several processes step by step.                              *)
(* SpecKeys   two different jobs that store and read their positions in    *)
(*            one checkpoint file.                                         *)
(* SpecLive   Spec under the scheduling of a process that keeps running.   *)
(* SpecSched  main_migration under asyncio.run: the groups of the          *)
(*            configuration, one after the other, and the tasks of each.   *)
(* SpecNorm   normalize_col applied, once and again, to a column name.     *)
(* SpecCalls  single calls of the functions that keep no state: decide,    *)
(*            sqlserver_to_postgres_type, extract_sqlserver_schema,        *)
(*            apply_plugin_chain and the keyset fetch of a cursor.         *)
(* SpecYaml   Spec started from any job entry the YAML can hold, with or   *)
(*            without a position left under the job's key.                 *)
(***************************************************************************)
EXTENDS Integers, Sequences, FiniteSets, TLC

\* ------------------------------------------------------------------ bounds
\* Number of rows of the (unchanging) source, sorted by its unique sort key.
NRows == 5
\* Batch size; the program's CHUNK_SIZE is 500, scaled down here.
CHUNK_SIZE == 2
\* Number of runs of the job that are explored.
MaxRuns == 2
\* stop_after_attempt(5) of both retry decorators.
RetryMax == 5
\* Processes that use the checkpoint store concurrently (SpecStore).
NProcs == 2
\* Largest position a job stores (SpecKeys).
MaxPos == 2
\* Database groups of the configuration, and jobs per group (SpecSched).
NGroups == 2
NJobs == 2
\* Longest column name given to normalize_col (SpecNorm).
MaxNameLen == 4
\* Length normalize_col cuts a name to; 63 in the program, scaled down here.
MaxIdentLen == 3
\* Longest transform chain given to apply_plugin_chain (SpecCalls).
MaxChainLen == 2

VARIABLES
    file,        \* the checkpoint file: [kind, data]
    target,      \* the rows of the target table, in insertion order
    cfg,         \* the job descriptor (table_cfg)
    pc,          \* where the running job is
    err,         \* which step failed the job ("" while none did)
    offset,      \* local `offset` of the running job
    cursor,      \* local (last_sort, last_unique) of a keyset job
    rows,        \* local `rows`: the chunk after the transform chain
    inserted,    \* local `inserted`
    total,       \* local `total`
    attempt,     \* attempt number of the retry-wrapped call in progress
    runs,        \* number of runs started
    sinceFresh,  \* how the runs since the target was last emptied ended
    ddlLog,      \* schema statements executed by the current run
    resumeFrom,  \* the job's stored position when the current run started
    events,      \* what the current run did so far: [e, v] records
    lastExc,     \* the exception of the latest failed attempt ("" if none)
    exists,      \* whether the target table exists (committed state)
    prev,        \* how the run before the current one ended ("" if none)
    importable,  \* the plugin functions importlib resolves in the current run
    tmp,         \* the temp file next to the checkpoint file
    lock,        \* holder of the FileLock (0: free)
    procs,       \* SpecStore: per process [pc, fl, op, seen, data, ret]
    jobs,        \* SpecKeys: per job [fl, id, pos, got]
    sched,       \* SpecSched: main_migration and the tasks it created
    norm,        \* SpecNorm: a column name and its normalizations
    call         \* SpecCalls: a function call [fn, arg, done, ret]

jobVars == <<target, cfg, pc, err, offset, cursor, rows, inserted, total,
             attempt, runs, sinceFresh, ddlLog, resumeFrom, events, lastExc,
             exists, prev, importable>>
storeVars == <<tmp, lock, procs, jobs>>
otherVars == <<sched, norm, call>>
vars == <<file, jobVars, storeVars, otherVars>>

\* ------------------------------------------------------- checkpoint values
EmptyStore == [k \in {} |-> 0]

\* A stored Resume Position: an integer offset, or a keyset cursor
\* {"sort": s, "unique": u}.
IntVal(n) == [t |-> "int", n |-> n, s |-> 0, u |-> 0]
CurVal(s, u) == [t |-> "cur", n |-> 0, s |-> s, u |-> u]
\* Python's None, as returned by dict.get for an absent key.
NoneVal == [t |-> "none", n |-> 0, s |-> 0, u |-> 0]

\* The file's content. kind: "missing" (no file), "ok" (a JSON object:
\* data), "badjson" (text that is not JSON), "nondict" (JSON, but not an
\* object, e.g. []), "undecodable" (bytes that are not UTF-8 text),
\* "partial" (a write_text that did not finish).
MissingFile == [kind |-> "missing", data |-> EmptyStore]
OkFile(d) == [kind |-> "ok", data |-> d]
BadJsonFile == [kind |-> "badjson", data |-> EmptyStore]
NonDictFile == [kind |-> "nondict", data |-> EmptyStore]
UndecodableFile == [kind |-> "undecodable", data |-> EmptyStore]
PartialFile == [kind |-> "partial", data |-> EmptyStore]

Put(d, k, v) == [x \in DOMAIN d \cup {k} |-> IF x = k THEN v ELSE d[x]]
Max(a, b) == IF a >= b THEN a ELSE b
Min(a, b) == IF a <= b THEN a ELSE b

\* The outcome of a call: the value returned (val; obj when it is a parsed
\* document), or the exception raised.
Ret(v) == [exc |-> "none", val |-> v, obj |-> MissingFile]
RetObj(o) == [exc |-> "none", val |-> NoneVal, obj |-> o]
Raise(e) == [exc |-> e, val |-> NoneVal, obj |-> MissingFile]

\* json.loads(OFFSET_FILE.read_text()) on an existing file.
json_loads(f) ==
    IF f.kind = "undecodable" THEN Raise("UnicodeDecodeError")
    ELSE IF f.kind \in {"badjson", "partial"} THEN Raise("JSONDecodeError")
    ELSE RetObj(f)

\* data.get(key, default) on what json.loads returned.
dict_get(o, key, default) ==
    IF o.kind # "ok" THEN Raise("AttributeError")
    ELSE IF key \in DOMAIN o.data THEN Ret(o.data[key]) ELSE Ret(default)

\* data[key] = val on what json.loads returned.
\* A set that writes a document holding the entry it sets and no other.
dict_set_fresh(o, key, val) ==
    IF o.kind # "ok" THEN Raise("TypeError")
    ELSE RetObj(OkFile(Put(EmptyStore, key, val)))

dict_set(o, key, val) ==
    IF o.kind # "ok" THEN Raise("TypeError")
    ELSE RetObj(OkFile(Put(o.data, key, val)))

\* data_loader.py _ckpt_key: f"{src_table}->{dst_table}#{h}", h the first 8
\* hex digits of sha1(src_conn + "→" + dst_conn).
ckpt_key(src_conn, dst_conn, src_table, dst_table) ==
    <<src_table, "->", dst_table, "#", <<"sha1", src_conn, dst_conn>>>>

\* data_loader.py _read_ckpt_file: {} for a missing file and for a
\* JSONDecodeError; otherwise whatever json.loads returned or raised.
read_ckpt_file(f) ==
    IF f.kind = "missing" THEN RetObj(OkFile(EmptyStore))
    ELSE IF json_loads(f).exc = "JSONDecodeError" THEN RetObj(OkFile(EmptyStore))
    ELSE json_loads(f)

\* data_loader.py read_checkpoint_keyed: int(data.get(key, 0)).
read_checkpoint_keyed(f, key) ==
    LET data == read_ckpt_file(f)
    IN  IF data.exc # "none" THEN data
        ELSE LET got == dict_get(data.obj, key, IntVal(0))
             IN  IF got.exc # "none" THEN got
                 ELSE IF got.val.t # "int" THEN Raise("TypeError")
                 ELSE got

\* data_loader.py write_checkpoint_keyed up to data[key] = int(offset): the
\* document it is going to write (or the exception raised).
keyed_update(f, key, off) ==
    LET data == read_ckpt_file(f)
    IN  IF data.exc # "none" THEN data
        ELSE dict_set(data.obj, key, IntVal(off))

\* data_loader.py write_checkpoint_keyed within one process, where nothing
\* runs between its read and its write.
write_checkpoint_keyed(f, key, off) == keyed_update(f, key, off)

\* data_loader_ext.py: the table name itself is the key.
table_key(table) == <<table>>

\* data_loader_ext.py read_checkpoint / read_keyset_checkpoint: the default
\* for a missing file and on JSONDecodeError or FileNotFoundError,
\* data.get(key, default) otherwise.
ext_read(f, key, default) ==
    IF f.kind = "missing" THEN Ret(default)
    ELSE IF json_loads(f).exc = "JSONDecodeError" THEN Ret(default)
    ELSE IF json_loads(f).exc # "none" THEN json_loads(f)
    ELSE dict_get(json_loads(f).obj, key, default)

read_checkpoint(f, table) == ext_read(f, table_key(table), IntVal(0))

\* data_loader_ext.py write_checkpoint / write_keyset_checkpoint up to
\* data[key] = value: data = {} unless the file exists, then json.loads.
ext_update(f, key, val) ==
    IF f.kind = "missing" THEN dict_set(OkFile(EmptyStore), key, val)
    ELSE IF json_loads(f).exc # "none" THEN json_loads(f)
    ELSE dict_set(json_loads(f).obj, key, val)

write_checkpoint(f, table, off) == ext_update(f, table_key(table), IntVal(off))

keyset_key(dest) == <<"keyset::", dest>>

read_keyset_checkpoint(f, dest) == ext_read(f, keyset_key(dest), NoneVal)

write_keyset_checkpoint(f, dest, sort_value, unique_value) ==
    ext_update(f, keyset_key(dest), CurVal(sort_value, unique_value))

\* ------------------------------------------------------------ the source
\* The source rows in their sort order; row r has sort value SortOf(r) (not
\* unique) and unique value UniqueOf(r).
Source == [i \in 1..NRows |-> i]
SortOf(r) == (r + 1) \div 2
UniqueOf(r) == r

\* ORDER BY <sort cols> OFFSET off ROWS FETCH NEXT limit ROWS ONLY.
FetchOffset(off, limit) == SubSeq(Source, off + 1, Min(off + limit, NRows))

\* A predicate that also admits the rows of the cursor's own sort value.
KeysetPredicate_inclusive(r, cur) == SortOf(r) >= cur.s

\* fetch_keyset_chunk_generic, ascending: no predicate without a cursor,
\* else (sort > ?) OR (sort = ? AND unique > ?); the first `limit` rows.
KeysetPredicate(r, cur) ==
    \/ SortOf(r) > cur.s
    \/ SortOf(r) = cur.s /\ UniqueOf(r) > cur.u

FetchKeyset(cur, limit) ==
    LET match == IF cur.t = "none" THEN Source
                 ELSE SelectSeq(Source, LAMBDA r : KeysetPredicate(r, cur))
    IN  SubSeq(match, 1, Min(limit, Len(match)))

\* ------------------------------------------------------- transform chain
\* The plugin functions the deployment provides: one that drops the rows
\* with an even key, one that returns no row at all, one that returns the
\* first row it is given.
Registry == {"plugins.drop_even", "plugins.drop_all", "plugins.head"}

\* What importlib.import_module / getattr can resolve in one run of the
\* program: the deployment's plugins, or none of them (the plugin package is
\* not on the path of that process).
ImportableSets == {Registry, {}}

PluginFn(name, rs) ==
    IF name = "plugins.drop_even" THEN SelectSeq(rs, LAMBDA r : r % 2 = 1)
    ELSE IF name = "plugins.drop_all" THEN <<>>
    ELSE IF name = "plugins.head" THEN SubSeq(rs, 1, Min(1, Len(rs)))
    ELSE rs

\* The functions are applied from the last reference to the first.
RECURSIVE apply_plugin_chain_reversed(_, _)
apply_plugin_chain_reversed(rs, plugin_paths) ==
    IF plugin_paths = <<>> THEN [exc |-> "none", rows |-> rs]
    ELSE IF plugin_paths[Len(plugin_paths)] \notin importable
         THEN [exc |-> "ImportError", rows |-> <<>>]
         ELSE apply_plugin_chain_reversed(
                  PluginFn(plugin_paths[Len(plugin_paths)], rs),
                  SubSeq(plugin_paths, 1, Len(plugin_paths) - 1))

RECURSIVE apply_plugin_chain(_, _)
apply_plugin_chain(rs, plugin_paths) ==
    IF plugin_paths = <<>> THEN [exc |-> "none", rows |-> rs]
    ELSE IF Head(plugin_paths) \notin importable
         THEN [exc |-> "ImportError", rows |-> <<>>]
         ELSE apply_plugin_chain(PluginFn(Head(plugin_paths), rs), Tail(plugin_paths))

\* --------------------------------------------------------- job descriptor
SrcConn == "mssql://src"
DstConn == "postgres://dst"
SrcTable == "dbo.app"
DstTable == "public.app"

PluginChains == {<<>>, <<"plugins.drop_even">>, <<"plugins.drop_all">>, <<"plugins.no_such">>}

\* path: which migrate function runs the job. "dl": data_loader.py
\* migrate_table; "ext_table" / "ext_query": data_loader_ext.py
\* migrate_entry on a table / on a query source. group_by / columns: whether
\* the descriptor has a non-empty "group_by" / "columns" list.
JobConfigs ==
    { c \in [path : {"dl", "ext_table", "ext_query"},
             nsort : 0..2,
             plugins : PluginChains,
             recreate : BOOLEAN,
             pre : BOOLEAN,
             post : BOOLEAN,
             group_by : BOOLEAN,
             columns : BOOLEAN] :
        \* data_loader.py reads no pre_ddl_file
        /\ (c.path = "dl" => ~c.pre)
        \* data_loader_ext.py reads neither group_by nor columns
        /\ (c.path # "dl" => ~c.group_by /\ ~c.columns)
        \* explicit columns are explored together with GROUP BY, on plain jobs
        /\ (c.columns => c.group_by)
        /\ (c.group_by => c.plugins = <<>> /\ ~c.post) }

\* The checkpoint entry the job reads and writes.
JobKey ==
    IF cfg.path = "dl" THEN ckpt_key(SrcConn, DstConn, SrcTable, DstTable)
    ELSE IF cfg.path = "ext_table" THEN table_key(SrcTable)
    ELSE keyset_key(DstTable)

\* _build_base_sql's uses_paging (data_loader.py).
uses_paging == cfg.nsort > 0
\* migrate_entry's choice of keyset pagination.
IsKeyset == cfg.path = "ext_query" /\ cfg.nsort >= 2
\* The fetch functions under a @retry decorator.
FetchRetried == cfg.path \in {"dl", "ext_table"}

Running == {"pre", "extract", "recreate", "post", "fetch", "insert", "ckpt", "complete"}

\* _build_base_sql never raises.
GroupByRejected_never(c) == FALSE

\* _build_base_sql: if group_by and not selected_columns: raise ValueError.
GroupByRejected(c) == c.group_by /\ ~c.columns

\* _build_base_sql (data_loader.py): the exception it raises, uses_paging,
\* and whether it logs the no-sort-columns warning.
build_base_sql(c) ==
    IF GroupByRejected(c)
    THEN [exc |-> "ValueError", uses_paging |-> FALSE, warned |-> FALSE]
    ELSE [exc |-> "none", uses_paging |-> c.nsort > 0, warned |-> ~(c.nsort > 0)]

\* tenacity retries without end.
stop_after_attempt_never(n) == FALSE

\* stop=stop_after_attempt(5): no further attempt after attempt number n.
stop_after_attempt(n) == n >= RetryMax

\* retry=retry_if_exception_type(Exception) on all four decorated functions.
retry_if_exception_type(e) == TRUE

\* What one attempt of insert_chunk_pg can do: succeed, or raise a transient
\* connection error (OSError) or an error about the shape of the records
\* (asyncpg DataError).
InsertOutcomes == {"ok", "OSError", "DataError"}

\* ----------------------------------------------------------------- events
Ev(e, v) == [e |-> e, v |-> v]

\* A run that advances on every chunk logs at most this many events; a run
\* that goes round without advancing keeps the first MaxEvents of its log.
MaxEvents == 2 * NRows + 4

Log(ev, x) == IF Len(ev) < MaxEvents THEN Append(ev, x) ELSE ev

\* The events of kind e of the current run, in order, as their values.
EventsOf(e) ==
    LET sel == SelectSeq(events, LAMBDA x : x.e = e)
    IN  [i \in 1..Len(sel) |-> sel[i].v]

\* The position the running job has reached, as it would be stored.
LocalPosition == IF IsKeyset THEN cursor ELSE IntVal(offset)

\* The position a fetch is issued at (none for the unpaged statement).
FetchPosition ==
    IF cfg.path = "dl" /\ ~uses_paging THEN NoneVal ELSE LocalPosition

\* ---------------------------------------------------------------- actions
\* The job raises: it ends Failed. sf: the new value of sinceFresh.
Fail(e, sf) ==
    /\ pc' = "failed"
    /\ err' = e
    /\ sinceFresh' = sf

\* data_loader_ext.py migrate_table, the except clause of the paged loop:
\* write_checkpoint(src_table, max(0, offset - CHUNK_SIZE)), then raise.
ExtFailureCheckpoint(off) ==
    LET w == write_checkpoint(file, SrcTable, Max(0, off - CHUNK_SIZE))
    IN  IF w.exc = "none" THEN w.obj ELSE file

\* The event of that write.
ExtFailureEvents(off) ==
    LET w == write_checkpoint(file, SrcTable, Max(0, off - CHUNK_SIZE))
    IN  IF w.exc = "none" THEN <<Ev("write", IntVal(Max(0, off - CHUNK_SIZE)))>>
        ELSE <<>>

DlFailureCheckpoint_rewind(off) ==
    LET w == write_checkpoint_keyed(file, JobKey, Max(0, off - CHUNK_SIZE))
    IN  IF w.exc = "none" THEN w.obj ELSE file

\* data_loader.py migrate_table, the except clause of the paged loop: log
\* and raise; the checkpoint file is not written.
DlFailureCheckpoint(off) == file

\* An exception inside the paging loop. ev: the run's events so far.
LoopFail(e, ev) ==
    /\ Fail(e, sinceFresh)
    /\ file' = IF cfg.path = "ext_table" THEN ExtFailureCheckpoint(offset)
               ELSE IF cfg.path = "dl" THEN DlFailureCheckpoint(offset)
               ELSE file
    /\ events' = IF cfg.path = "ext_table" THEN ev \o ExtFailureEvents(offset)
                 ELSE ev

\* Schema setup is over (or was skipped): read the resume position where
\* the code reads it there, and enter the paging loop. ev: the run's events
\* so far.
EnterPaging(sf, ev) ==
    IF cfg.path = "dl"
    THEN /\ pc' = "fetch"
         /\ err' = ""
         /\ sinceFresh' = sf
         /\ events' = ev
         /\ lastExc' = ""
         /\ UNCHANGED <<offset, cursor>>
    ELSE IF cfg.path = "ext_table"
    THEN LET got == read_checkpoint(file, SrcTable)
         IN  IF got.exc # "none"
             THEN /\ Fail("checkpoint", sf)
                  /\ events' = ev
                  /\ lastExc' = got.exc
                  /\ UNCHANGED <<offset, cursor>>
             ELSE /\ pc' = "fetch"
                  /\ err' = ""
                  /\ sinceFresh' = sf
                  /\ events' = Log(ev, Ev("read", got.val))
                  /\ lastExc' = ""
                  /\ offset' = got.val.n
                  /\ cursor' = cursor
    ELSE IF cfg.nsort >= 2
    THEN LET got == read_keyset_checkpoint(file, DstTable)
         IN  IF got.exc # "none"
             THEN /\ Fail("checkpoint", sf)
                  /\ events' = ev
                  /\ lastExc' = got.exc
                  /\ UNCHANGED <<offset, cursor>>
             ELSE /\ pc' = "fetch"
                  /\ err' = ""
                  /\ sinceFresh' = sf
                  /\ events' = Log(ev, Ev("read", got.val))
                  /\ lastExc' = ""
                  /\ cursor' = got.val
                  /\ offset' = 0
    ELSE IF cfg.nsort = 0
    THEN /\ Fail("config", sf)
         /\ events' = ev
         /\ lastExc' = "ValueError"
         /\ UNCHANGED <<offset, cursor>>
    ELSE /\ pc' = "fetch"
         /\ err' = ""
         /\ sinceFresh' = sf
         /\ events' = ev
         /\ lastExc' = ""
         /\ offset' = 0
         /\ cursor' = NoneVal

\* How the previous run ended, as recorded when the next one starts.
Ended ==
    IF pc = "idle" THEN sinceFresh
    ELSE IF pc = "done" THEN sinceFresh \cup {"completed"}
    ELSE IF pc = "failed" THEN sinceFresh \cup {"failed"}
    ELSE sinceFresh \cup {err}

\* The value stored under the job's key (None when there is none).
StoredPosition ==
    IF file.kind = "ok" /\ JobKey \in DOMAIN file.data THEN file.data[JobKey]
    ELSE NoneVal

\* data_loader.py migrate_table: if offset == 0 and recreate.
NeedsSchemaSetup(off, r) == off = 0 /\ r

\* migrate_table / migrate_entry up to the first await.
StartRun(r, imp) ==
    /\ pc \in {"idle", "done", "failed", "crashed"}
    /\ runs < MaxRuns
    /\ cfg.plugins = <<>> => imp = Registry
    /\ importable' = imp
    /\ runs' = runs + 1
    /\ cfg' = [cfg EXCEPT !.recreate = r]
    /\ resumeFrom' = StoredPosition
    /\ prev' = IF pc = "idle" THEN "" ELSE pc
    /\ exists' = exists
    /\ ddlLog' = <<>>
    /\ rows' = <<>>
    /\ inserted' = 0
    /\ total' = 0
    /\ attempt' = 1
    /\ UNCHANGED <<file, target, storeVars, otherVars>>
    /\ IF cfg.path = "dl"
       THEN LET b == build_base_sql(cfg)
                got == read_checkpoint_keyed(file, JobKey)
                warn == IF b.warned THEN <<Ev("warn", NoneVal)>> ELSE <<>>
            IN  IF b.exc # "none"
                THEN /\ Fail("config", Ended)
                     /\ offset' = 0
                     /\ cursor' = NoneVal
                     /\ events' = <<>>
                     /\ lastExc' = b.exc
                ELSE IF got.exc # "none"
                THEN /\ Fail("checkpoint", Ended)
                     /\ offset' = 0
                     /\ cursor' = NoneVal
                     /\ events' = warn
                     /\ lastExc' = got.exc
                ELSE /\ offset' = got.val.n
                     /\ cursor' = NoneVal
                     /\ err' = ""
                     /\ sinceFresh' = Ended
                     /\ events' = Log(warn, Ev("read", got.val))
                     /\ lastExc' = ""
                     /\ pc' = IF NeedsSchemaSetup(got.val.n, r) THEN "extract" ELSE "fetch"
       ELSE IF cfg.path = "ext_table"
       THEN /\ offset' = 0
            /\ cursor' = NoneVal
            /\ err' = ""
            /\ sinceFresh' = Ended
            /\ events' = <<>>
            /\ lastExc' = ""
            /\ pc' = IF cfg.pre THEN "pre" ELSE "extract"
       ELSE IF cfg.pre \/ cfg.post
       THEN /\ offset' = 0
            /\ cursor' = NoneVal
            /\ err' = ""
            /\ sinceFresh' = Ended
            /\ events' = <<>>
            /\ lastExc' = ""
            /\ pc' = IF cfg.pre THEN "pre" ELSE "post"
       ELSE EnterPaging(Ended, <<>>)

\* A schema step raises and the job goes on as if it had not.
SchemaFail_swallowed ==
    /\ pc' = "fetch"
    /\ err' = err
    /\ sinceFresh' = sinceFresh

\* A schema step raises: except Exception: logger.error("DDL error"), raise
\* (the query path of migrate_entry has no handler; the exception leaves
\* it just the same).
SchemaFail == Fail("schema", sinceFresh)

\* Optional pre_ddl_file (data_loader_ext.py), executed against the target.
PreDdl(ok) ==
    /\ pc = "pre"
    /\ UNCHANGED <<file, target, cfg, rows, inserted, total, attempt, runs, resumeFrom, exists, prev, importable, storeVars, otherVars>>
    /\ IF ~ok
       THEN /\ SchemaFail
            /\ lastExc' = "ddl"
            /\ UNCHANGED <<offset, cursor, ddlLog, events>>
       ELSE /\ ddlLog' = Append(ddlLog, "pre")
            /\ IF cfg.path = "ext_table"
               THEN /\ pc' = "extract"
                    /\ UNCHANGED <<err, sinceFresh, offset, cursor, events, lastExc>>
               ELSE IF cfg.post
               THEN /\ pc' = "post"
                    /\ UNCHANGED <<err, sinceFresh, offset, cursor, events, lastExc>>
               ELSE EnterPaging(sinceFresh, events)

\* extract_sqlserver_schema: reads the source catalog, writes nothing.
ExtractSchema(ok) ==
    /\ pc = "extract"
    /\ UNCHANGED <<file, target, cfg, offset, cursor, rows, inserted, total,
                   attempt, runs, resumeFrom, exists, prev, importable, events, storeVars, otherVars>>
    /\ IF ok
       THEN /\ pc' = "recreate"
            /\ ddlLog' = Append(ddlLog, "extract")
            /\ UNCHANGED <<err, sinceFresh, lastExc>>
       ELSE /\ SchemaFail
            /\ lastExc' = "ddl"
            /\ ddlLog' = ddlLog

\* The target table as the database holds it: whether it exists, and its rows.
TableState(e, rs) == [exists |-> e, rows |-> rs]
\* DROP TABLE IF EXISTS <fqn> CASCADE.
drop_table(t) == TableState(FALSE, <<>>)
\* CREATE TABLE <fqn> (...): the new table is empty.
create_table(t) == TableState(TRUE, <<>>)

\* What recreate_pg_table can do: succeed, or fail to connect, or have its
\* DROP TABLE or its CREATE TABLE statement raise.
RecreateOutcomes == {"ok", "connect", "drop", "create"}

\* The two statements on a connection in autocommit mode: each statement
\* that ran is committed on its own.
transaction_autocommit(t, res) ==
    IF res = "ok" THEN create_table(drop_table(t))
    ELSE IF res = "create" THEN drop_table(t)
    ELSE t

\* async with conn.transaction(): DROP TABLE ..., CREATE TABLE ... . The
\* committed table after the block: both statements' effect when neither
\* raised, and the table as it was (rollback) when one did.
transaction(t, res) ==
    IF res = "ok" THEN create_table(drop_table(t))
    ELSE t

\* recreate_pg_table: connect, then DROP TABLE IF EXISTS ... CASCADE and
\* CREATE TABLE in one transaction. ddlLog records the committed statements,
\* or which step raised.
recreate_pg_table(res) ==
    /\ pc = "recreate"
    /\ UNCHANGED <<file, cfg, rows, inserted, total, attempt, runs, resumeFrom, prev, importable, storeVars, otherVars>>
    /\ LET t == transaction(TableState(exists, target), res)
       IN  /\ target' = t.rows
           /\ exists' = t.exists
    /\ IF res # "ok"
       THEN /\ SchemaFail
            /\ lastExc' = "ddl"
            /\ ddlLog' = Append(ddlLog, IF res = "create" THEN "create_failed"
                                        ELSE IF res = "drop" THEN "drop_failed"
                                        ELSE "connect_failed")
            /\ UNCHANGED <<offset, cursor, events>>
       ELSE /\ ddlLog' = ddlLog \o <<"drop", "create">>
            /\ IF cfg.post
               THEN /\ pc' = "post"
                    /\ sinceFresh' = {}
                    /\ UNCHANGED <<err, offset, cursor, events, lastExc>>
               ELSE EnterPaging({}, events)

\* Optional post_ddl_file, executed against the target before the copy.
PostDdl(ok) ==
    /\ pc = "post"
    /\ UNCHANGED <<file, target, cfg, rows, inserted, total, attempt, runs, resumeFrom, exists, prev, importable, storeVars, otherVars>>
    /\ IF ~ok
       THEN /\ SchemaFail
            /\ lastExc' = "ddl"
            /\ UNCHANGED <<offset, cursor, ddlLog, events>>
       ELSE /\ ddlLog' = Append(ddlLog, "post")
            /\ EnterPaging(sinceFresh, events)

\* How the job reads its source. data_loader.py pages by offset whenever
\* there is a sort column and reads everything in one statement otherwise.
\* data_loader_ext.py sends a table job to migrate_table (offset paging; its
\* fetch raises without sort columns); for a query job it chooses keyset
\* paging with two or more sort columns, raises ValueError with none, and
\* pages by offset otherwise.
Strategy ==
    IF cfg.path = "dl" THEN (IF uses_paging THEN "offset" ELSE "single")
    ELSE IF cfg.path = "ext_table" THEN "offset"
    ELSE IF cfg.nsort >= 2 THEN "keyset"
    ELSE IF cfg.nsort = 0 THEN "error"
    ELSE "offset"

\* What one successful fetch returns.
FetchWindow ==
    IF Strategy = "single" THEN Source
    ELSE IF Strategy = "keyset" THEN FetchKeyset(cursor, CHUNK_SIZE)
    ELSE FetchOffset(offset, CHUNK_SIZE)

\* data_loader_ext.py fetch_chunk_sqlserver raises ValueError("Sort columns
\* required") on every attempt when the job has no sort columns.
FetchCanSucceed == ~(cfg.path = "ext_table" /\ cfg.nsort = 0)

\* Whether a failed attempt number n of a fetch is followed by another one.
FetchRetries(n, e) ==
    FetchRetried /\ retry_if_exception_type(e) /\ ~stop_after_attempt(n)

\* One attempt of the fetch of the next chunk, and the transform chain on
\* what it returned.
FetchChunk(ok) ==
    /\ pc = "fetch"
    /\ UNCHANGED <<target, cfg, offset, cursor, inserted, total, runs, resumeFrom, exists, prev, importable, ddlLog, storeVars, otherVars>>
    /\ LET ev == IF attempt = 1 THEN Log(events, Ev("fetch", FetchPosition))
                 ELSE events
           exc == IF ~FetchCanSucceed THEN "ValueError" ELSE "OSError"
       IN  IF ~(ok /\ FetchCanSucceed)
           THEN IF FetchRetries(attempt, exc)
                THEN /\ attempt' = attempt + 1
                     /\ events' = ev
                     /\ lastExc' = exc
                     /\ UNCHANGED <<file, pc, err, rows, sinceFresh>>
                ELSE /\ LoopFail("fetch", ev)
                     /\ lastExc' = exc
                     /\ UNCHANGED <<attempt, rows>>
           ELSE IF FetchWindow = <<>>
                THEN /\ pc' = "complete"
                     /\ attempt' = 1
                     /\ rows' = <<>>
                     /\ events' = ev
                     /\ lastExc' = ""
                     /\ UNCHANGED <<file, err, sinceFresh>>
                ELSE LET out == apply_plugin_chain(FetchWindow, cfg.plugins)
                     IN  IF out.exc # "none"
                         THEN /\ LoopFail("plugin", ev)
                              /\ attempt' = 1
                              /\ rows' = FetchWindow
                              /\ lastExc' = out.exc
                         ELSE /\ pc' = "insert"
                              /\ attempt' = 1
                              /\ rows' = out.rows
                              /\ events' = ev
                              /\ lastExc' = ""
                              /\ UNCHANGED <<file, err, sinceFresh>>

\* One attempt of insert_chunk_pg: a single COPY of the whole chunk, which
\* writes all of its rows or, failing, none. An empty chunk returns 0
\* without connecting. The COPY raises (UndefinedTableError) while the
\* target table does not exist.
insert_chunk_pg(res) ==
    /\ pc = "insert"
    /\ UNCHANGED <<cfg, offset, cursor, rows, runs, resumeFrom, exists, prev, importable, ddlLog, storeVars, otherVars>>
    /\ IF rows # <<>> /\ (res # "ok" \/ ~exists)
       THEN IF retry_if_exception_type(res) /\ ~stop_after_attempt(attempt)
            THEN /\ attempt' = attempt + 1
                 /\ lastExc' = IF res = "ok" THEN "UndefinedTableError" ELSE res
                 /\ UNCHANGED <<file, target, pc, err, inserted, total, sinceFresh, events>>
            ELSE /\ LoopFail("insert", events)
                 /\ lastExc' = IF res = "ok" THEN "UndefinedTableError" ELSE res
                 /\ UNCHANGED <<target, attempt, inserted, total>>
       ELSE /\ target' = target \o rows
            /\ inserted' = Len(rows)
            /\ total' = total + Len(rows)
            /\ attempt' = 1
            /\ lastExc' = ""
            /\ pc' = IF cfg.path = "dl" /\ ~uses_paging THEN "complete" ELSE "ckpt"
            /\ UNCHANGED <<file, err, sinceFresh, events>>

\* offset += CHUNK_SIZE.
AdvanceDl_by_chunk == offset + CHUNK_SIZE

\* data_loader.py: offset += inserted.
AdvanceDl == offset + inserted
\* data_loader_ext.py: offset += len(rows).
AdvanceExt == offset + Len(rows)

\* The cursor is taken from the last row the fetch returned.
last_row_fetched == FetchWindow[Len(FetchWindow)]

\* migrate_entry, keyset loop: last_row = rows[-1], after the transform chain
\* and the insert.
last_row == rows[Len(rows)]

\* After a successful insert: advance the resume position and persist it.
SaveProgress ==
    /\ pc = "ckpt"
    /\ UNCHANGED <<target, cfg, rows, inserted, total, attempt, runs, resumeFrom, exists, prev, importable, ddlLog, storeVars, otherVars>>
    /\ IF cfg.path = "dl"
       THEN LET w == write_checkpoint_keyed(file, JobKey, AdvanceDl)
            IN  /\ offset' = AdvanceDl
                /\ cursor' = cursor
                /\ IF w.exc # "none"
                   THEN /\ Fail("checkpoint", sinceFresh)
                        /\ file' = file
                        /\ events' = events
                        /\ lastExc' = w.exc
                   ELSE /\ file' = w.obj
                        /\ pc' = "fetch"
                        /\ events' = Log(events, Ev("write", IntVal(AdvanceDl)))
                        /\ UNCHANGED <<err, sinceFresh, lastExc>>
       ELSE IF cfg.path = "ext_table"
       THEN LET w == write_checkpoint(file, SrcTable, AdvanceExt)
            IN  /\ offset' = AdvanceExt
                /\ cursor' = cursor
                /\ IF w.exc # "none"
                   THEN /\ Fail("checkpoint", sinceFresh)
                        /\ file' = ExtFailureCheckpoint(AdvanceExt)
                        /\ events' = events \o ExtFailureEvents(AdvanceExt)
                        /\ lastExc' = w.exc
                   ELSE /\ file' = w.obj
                        /\ pc' = "fetch"
                        /\ events' = Log(events, Ev("write", IntVal(AdvanceExt)))
                        /\ UNCHANGED <<err, sinceFresh, lastExc>>
       ELSE IF IsKeyset
       THEN IF rows = <<>>
            \* last_row = rows[-1] raises IndexError
            THEN /\ Fail("cursor", sinceFresh)
                 /\ lastExc' = "IndexError"
                 /\ UNCHANGED <<file, offset, cursor, events>>
            ELSE LET w == write_keyset_checkpoint(file, DstTable, SortOf(last_row), UniqueOf(last_row))
                 IN  /\ cursor' = CurVal(SortOf(last_row), UniqueOf(last_row))
                     /\ offset' = offset
                     /\ IF w.exc # "none"
                        THEN /\ Fail("checkpoint", sinceFresh)
                             /\ file' = file
                             /\ events' = events
                             /\ lastExc' = w.exc
                        ELSE /\ file' = w.obj
                             /\ pc' = "fetch"
                             /\ events' = Log(events,
                                    Ev("write", CurVal(SortOf(last_row), UniqueOf(last_row))))
                             /\ UNCHANGED <<err, sinceFresh, lastExc>>
       ELSE /\ offset' = AdvanceExt
            /\ pc' = "fetch"
            /\ UNCHANGED <<file, cursor, err, sinceFresh, events, lastExc>>

\* The source is exhausted: the code after the loop.
Complete ==
    /\ pc = "complete"
    /\ UNCHANGED <<target, cfg, offset, cursor, rows, inserted, total, attempt,
                   runs, resumeFrom, exists, prev, importable, ddlLog, storeVars, otherVars>>
    /\ IF cfg.path = "dl"
       THEN LET w == write_checkpoint_keyed(file, JobKey, 0)
            IN  IF w.exc # "none"
                THEN /\ Fail("checkpoint", sinceFresh)
                     /\ file' = file
                     /\ events' = events
                     /\ lastExc' = w.exc
                ELSE /\ file' = w.obj
                     /\ pc' = "done"
                     /\ events' = Log(events, Ev("write", IntVal(0)))
                     /\ UNCHANGED <<err, sinceFresh, lastExc>>
       ELSE IF cfg.path = "ext_table"
       THEN LET w == write_checkpoint(file, SrcTable, 0)
            IN  IF w.exc # "none"
                THEN /\ Fail("checkpoint", sinceFresh)
                     /\ file' = file
                     /\ events' = events
                     /\ lastExc' = w.exc
                ELSE /\ file' = w.obj
                     /\ pc' = "done"
                     /\ events' = Log(events, Ev("write", IntVal(0)))
                     /\ UNCHANGED <<err, sinceFresh, lastExc>>
       ELSE /\ pc' = "done"
            /\ UNCHANGED <<file, err, sinceFresh, events, lastExc>>

\* The process dies (kill, power loss) while the job runs. Nothing of the
\* process survives; the checkpoint file and the target table do.
Crash ==
    /\ pc \in Running
    /\ pc' = "crashed"
    /\ err' = IF pc = "ckpt" THEN "crash_before_ckpt" ELSE "crash"
    /\ UNCHANGED <<file, target, cfg, sinceFresh, offset, cursor, rows, inserted, total,
                   attempt, runs, resumeFrom, exists, prev, importable, ddlLog, events, lastExc, storeVars, otherVars>>

Init ==
    /\ file = MissingFile
    /\ target = <<>>
    /\ cfg \in {c \in JobConfigs : c.recreate}
    /\ pc = "idle"
    /\ err = ""
    /\ offset = 0
    /\ cursor = NoneVal
    /\ rows = <<>>
    /\ inserted = 0
    /\ total = 0
    /\ attempt = 1
    /\ runs = 0
    /\ sinceFresh = {}
    /\ ddlLog = <<>>
    /\ resumeFrom = NoneVal
    /\ events = <<>>
    /\ lastExc = ""
    /\ exists \in BOOLEAN
    /\ prev = ""
    /\ importable = Registry
    /\ sched = <<>>
    /\ norm = <<>>
    /\ call = <<>>
    /\ tmp = MissingFile
    /\ lock = 0
    /\ procs = <<>>
    /\ jobs = <<>>

Next ==
    \/ \E r \in BOOLEAN : \E imp \in ImportableSets : StartRun(r, imp)
    \/ \E ok \in BOOLEAN : PreDdl(ok)
    \/ \E ok \in BOOLEAN : ExtractSchema(ok)
    \/ \E res \in RecreateOutcomes : recreate_pg_table(res)
    \/ \E ok \in BOOLEAN : PostDdl(ok)
    \/ \E ok \in BOOLEAN : FetchChunk(ok)
    \/ \E res \in InsertOutcomes : insert_chunk_pg(res)
    \/ SaveProgress
    \/ Complete
    \/ Crash

Spec == Init /\ [][Next]_vars

\* The steps of a job that is running. A process that is not killed keeps
\* executing: the event loop resumes the job's coroutine whenever the call it
\* awaits has returned or raised.
JobStep ==
    \/ \E ok \in BOOLEAN : PreDdl(ok)
    \/ \E ok \in BOOLEAN : ExtractSchema(ok)
    \/ \E res \in RecreateOutcomes : recreate_pg_table(res)
    \/ \E ok \in BOOLEAN : PostDdl(ok)
    \/ \E ok \in BOOLEAN : FetchChunk(ok)
    \/ \E res \in InsertOutcomes : insert_chunk_pg(res)
    \/ SaveProgress
    \/ Complete

\* The job under that scheduling: a started run is never left standing.
SpecLive == Init /\ [][Next]_vars /\ WF_vars(JobStep)

\* ------------------------------------------- jobs as the YAML can hold them
\* table_cfg is the job's YAML entry as it stands when the run starts: it
\* may carry keys the program at hand does not read (pre_ddl_file under
\* data_loader.py), and its sort_columns may have been edited since an
\* earlier run left a position under the job's key (the key is made of the
\* connections and table names only).
YamlConfigs ==
    [path : {"dl", "ext_table", "ext_query"},
     nsort : 0..1,
     plugins : {<<>>},
     recreate : {TRUE},
     pre : BOOLEAN,
     post : BOOLEAN,
     group_by : {FALSE},
     columns : {FALSE}]

\* What an earlier paged run of data_loader.py that stopped after n rows
\* left behind: the position n under the job's key, n rows in the target.
LeftBehind(n) ==
    /\ cfg.path = "dl"
    /\ file = OkFile(Put(EmptyStore, JobKey, IntVal(n)))
    /\ target = SubSeq(Source, 1, n)
    /\ exists = TRUE

InitYaml ==
    /\ cfg \in YamlConfigs
    /\ \/ file = MissingFile /\ target = <<>> /\ exists \in BOOLEAN
       \/ \E n \in 1..MaxPos : LeftBehind(n)
    /\ pc = "idle"
    /\ err = ""
    /\ offset = 0
    /\ cursor = NoneVal
    /\ rows = <<>>
    /\ inserted = 0
    /\ total = 0
    /\ attempt = 1
    /\ runs = 0
    /\ sinceFresh = {}
    /\ ddlLog = <<>>
    /\ resumeFrom = NoneVal
    /\ events = <<>>
    /\ lastExc = ""
    /\ prev = ""
    /\ importable = Registry
    /\ sched = <<>>
    /\ norm = <<>>
    /\ call = <<>>
    /\ tmp = MissingFile
    /\ lock = 0
    /\ procs = <<>>
    /\ jobs = <<>>

SpecYaml == InitYaml /\ [][Next]_vars

\* ==================================================== the checkpoint store
\* Processes (separate runs of the loaders in one working directory) that
\* use the same migration_checkpoints.json, its .tmp and its .lock.
Procs == 1..NProcs

Tables == <<"dbo.t1", "dbo.t2", "dbo.t3", "dbo.t4">>

\* Which pair of functions a process uses: "keyed" (data_loader.py
\* read_checkpoint_keyed / write_checkpoint_keyed), "table" (data_loader_ext.py
\* read_checkpoint / write_checkpoint), "keyset" (read_keyset_checkpoint /
\* write_keyset_checkpoint).
Flavors == {"keyed", "table", "keyset"}

\* Each process works on a job of its own: the key of its entry.
KeyFor(p) ==
    IF procs[p].fl = "keyed" THEN ckpt_key(SrcConn, DstConn, Tables[p], DstTable)
    ELSE IF procs[p].fl = "table" THEN table_key(Tables[p])
    ELSE keyset_key(Tables[p])

\* The value process p sets.
ValueFor(p) == IF procs[p].fl = "keyset" THEN CurVal(p, p) ELSE IntVal(p)

\* seen: what a get found (the file's kind, whether it held the key);
\* data: the document a set is going to write; ret: what the call returned.
IdleProc(fl) ==
    [pc |-> "idle", fl |-> fl, op |-> "",
     seen |-> [kind |-> "", haskey |-> FALSE],
     data |-> MissingFile, ret |-> Ret(NoneVal)]

\* What a get returns, reading the file under the lock.
ReadResult(p) ==
    IF procs[p].fl = "keyed" THEN read_checkpoint_keyed(file, KeyFor(p))
    ELSE IF procs[p].fl = "table" THEN read_checkpoint(file, Tables[p])
    ELSE read_keyset_checkpoint(file, Tables[p])

\* read_checkpoint_keyed, read_checkpoint, read_keyset_checkpoint: the lock
\* is taken, the file is read and the lock is released.
Get(p) ==
    /\ procs[p].pc = "idle"
    /\ lock = 0
    /\ procs' = [procs EXCEPT ![p].pc = "returned",
                              ![p].op = "get",
                              ![p].seen = [kind |-> file.kind,
                                           haskey |-> KeyFor(p) \in DOMAIN file.data],
                              ![p].ret = ReadResult(p)]
    /\ UNCHANGED <<file, tmp, lock, jobVars, jobs, otherVars>>

\* The document a set is going to write.
Update(p) ==
    IF procs[p].fl = "keyed" THEN keyed_update(file, KeyFor(p), ValueFor(p).n)
    ELSE ext_update(file, KeyFor(p), ValueFor(p))

\* write_checkpoint and write_keyset_checkpoint read and write inside one
\* with-block; write_checkpoint_keyed releases the lock when _read_ckpt_file
\* returns and takes it again in _write_ckpt_file.
KeepsLock(fl) == fl \in {"table", "keyset"}

\* A set, up to data[key] = value: the lock is taken and the file is read.
SetRead(p) ==
    /\ procs[p].pc = "idle"
    /\ lock = 0
    /\ LET u == Update(p)
       IN  /\ procs' = [procs EXCEPT
                    ![p].pc = IF u.exc # "none" THEN "returned"
                              ELSE IF KeepsLock(procs[p].fl) THEN "locked"
                              ELSE "unlocked",
                    ![p].op = "set",
                    ![p].data = u.obj,
                    ![p].ret = [u EXCEPT !.obj = MissingFile]]
           /\ lock' = IF u.exc = "none" /\ KeepsLock(procs[p].fl) THEN p ELSE 0
    /\ UNCHANGED <<file, tmp, jobVars, jobs, otherVars>>

\* _write_ckpt_file: with FileLock(...).
SetRelock(p) ==
    /\ procs[p].pc = "unlocked"
    /\ lock = 0
    /\ lock' = p
    /\ procs' = [procs EXCEPT ![p].pc = "locked"]
    /\ UNCHANGED <<file, tmp, jobVars, jobs, otherVars>>

\* The files once write_text has opened (truncated) its file and written a
\* part of the text: temp = OFFSET_FILE.with_suffix(".tmp").
WriteTextBegin_inplace(f, t) == [file |-> PartialFile, tmp |-> t]

WriteTextBegin(f, t) == [file |-> f, tmp |-> PartialFile]

\* temp.write_text(json.dumps(data)), first part.
SetWriteBegin(p) ==
    /\ procs[p].pc = "locked"
    /\ file' = WriteTextBegin(file, tmp).file
    /\ tmp' = WriteTextBegin(file, tmp).tmp
    /\ procs' = [procs EXCEPT ![p].pc = "writing"]
    /\ UNCHANGED <<lock, jobVars, jobs, otherVars>>

\* temp.write_text(json.dumps(data)), the rest.
SetWriteEnd(p) ==
    /\ procs[p].pc = "writing"
    /\ tmp' = procs[p].data
    /\ procs' = [procs EXCEPT ![p].pc = "written"]
    /\ UNCHANGED <<file, lock, jobVars, jobs, otherVars>>

\* temp.replace(OFFSET_FILE): an atomic rename; the with-block ends and the
\* set returns.
SetReplace(p) ==
    /\ procs[p].pc = "written"
    /\ file' = tmp
    /\ tmp' = MissingFile
    /\ lock' = 0
    /\ procs' = [procs EXCEPT ![p].pc = "returned", ![p].data = MissingFile]
    /\ UNCHANGED <<jobVars, jobs, otherVars>>

\* The caller goes on.
Return(p) ==
    /\ procs[p].pc = "returned"
    /\ procs' = [procs EXCEPT ![p] = IdleProc(procs[p].fl)]
    /\ UNCHANGED <<file, tmp, lock, jobVars, jobs, otherVars>>

\* The process dies in the middle of a set; the operating system drops its
\* lock, the files stay as they are.
CrashProc(p) ==
    /\ procs[p].pc \in {"unlocked", "locked", "writing", "written"}
    /\ procs' = [procs EXCEPT ![p] = IdleProc(procs[p].fl)]
    /\ lock' = IF lock = p THEN 0 ELSE lock
    /\ UNCHANGED <<file, tmp, jobVars, jobs, otherVars>>

\* The checkpoint file as the processes may find it.
InitFiles ==
    {MissingFile, BadJsonFile, NonDictFile, UndecodableFile,
     OkFile(table_key(Tables[1]) :> IntVal(CHUNK_SIZE))}

InitStore ==
    /\ file \in InitFiles
    /\ tmp = MissingFile
    /\ lock = 0
    /\ procs \in [Procs -> {IdleProc(fl) : fl \in Flavors}]
    /\ target = <<>>
    /\ cfg = [path |-> "dl", nsort |-> 1, plugins |-> <<>>, recreate |-> TRUE,
              pre |-> FALSE, post |-> FALSE, group_by |-> FALSE, columns |-> FALSE]
    /\ pc = "idle"
    /\ err = ""
    /\ offset = 0
    /\ cursor = NoneVal
    /\ rows = <<>>
    /\ inserted = 0
    /\ total = 0
    /\ attempt = 1
    /\ runs = 0
    /\ sinceFresh = {}
    /\ ddlLog = <<>>
    /\ resumeFrom = NoneVal
    /\ events = <<>>
    /\ lastExc = ""
    /\ exists = TRUE
    /\ prev = ""
    /\ importable = Registry
    /\ sched = <<>>
    /\ norm = <<>>
    /\ call = <<>>
    /\ jobs = <<>>

NextStore ==
    \/ \E p \in Procs : Get(p)
    \/ \E p \in Procs : SetRead(p)
    \/ \E p \in Procs : SetRelock(p)
    \/ \E p \in Procs : SetWriteBegin(p)
    \/ \E p \in Procs : SetWriteEnd(p)
    \/ \E p \in Procs : SetReplace(p)
    \/ \E p \in Procs : Return(p)
    \/ \E p \in Procs : CrashProc(p)

SpecStore == InitStore /\ [][NextStore]_vars

\* ============================================================ job keys
\* The fresh value of a get.
Fresh(fl) == IF fl = "keyset" THEN NoneVal ELSE IntVal(0)

\* Locators and entities of the jobs: those of the job descriptor above and
\* one other of each.
SrcConns == {SrcConn, "mssql://other"}
DstConns == {DstConn, "postgres://other"}
SrcTables == {SrcTable, "dbo.other"}
DstTables == {DstTable, "public.other"}

\* (source locator, target locator, source entity, destination entity).
JobIds ==
    [src_conn : SrcConns, dst_conn : DstConns,
     src_table : SrcTables, dst_table : DstTables]

\* The key a job's checkpoint calls use: migrate_table of data_loader.py
\* passes all four to read/write_checkpoint_keyed; migrate_table of
\* data_loader_ext.py passes src_table to read/write_checkpoint; the keyset
\* loop of migrate_entry passes dest to read/write_keyset_checkpoint.
KeyOf(fl, id) ==
    IF fl = "keyed" THEN ckpt_key(id.src_conn, id.dst_conn, id.src_table, id.dst_table)
    ELSE IF fl = "table" THEN table_key(id.src_table)
    ELSE keyset_key(id.dst_table)

\* The stored form of position n.
PosVal(fl, n) == IF fl = "keyset" THEN CurVal(n, n) ELSE IntVal(n)

\* got before the job has read.
NotRead == [t |-> "unread", n |-> 0, s |-> 0, u |-> 0]

\* Job i stores position n.
JobSet(i, n) ==
    LET j == jobs[i]
        w == IF j.fl = "keyed" THEN keyed_update(file, KeyOf(j.fl, j.id), n)
             ELSE ext_update(file, KeyOf(j.fl, j.id), PosVal(j.fl, n))
    IN  /\ w.exc = "none"
        /\ file' = w.obj
        /\ jobs' = [jobs EXCEPT ![i].pos = PosVal(j.fl, n), ![i].got = NotRead]
        /\ UNCHANGED <<jobVars, tmp, lock, procs, otherVars>>

\* Job i reads its position.
JobGet(i) ==
    LET j == jobs[i]
        r == IF j.fl = "keyed" THEN read_checkpoint_keyed(file, KeyOf(j.fl, j.id))
             ELSE ext_read(file, KeyOf(j.fl, j.id), Fresh(j.fl))
    IN  /\ r.exc = "none"
        /\ jobs' = [jobs EXCEPT ![i].got = r.val]
        /\ UNCHANGED <<file, jobVars, tmp, lock, procs, otherVars>>

\* Two jobs of one kind that differ in at least one of the four.
InitKeys ==
    /\ file = MissingFile
    /\ \E fl \in Flavors : \E id1, id2 \in JobIds :
        /\ id1 = [src_conn |-> SrcConn, dst_conn |-> DstConn,
                  src_table |-> SrcTable, dst_table |-> DstTable]
        /\ id2 # id1
        /\ jobs = <<[fl |-> fl, id |-> id1, pos |-> Fresh(fl), got |-> NotRead],
                    [fl |-> fl, id |-> id2, pos |-> Fresh(fl), got |-> NotRead]>>
    /\ tmp = MissingFile
    /\ lock = 0
    /\ procs = <<>>
    /\ target = <<>>
    /\ cfg = [path |-> "dl", nsort |-> 1, plugins |-> <<>>, recreate |-> TRUE,
              pre |-> FALSE, post |-> FALSE, group_by |-> FALSE, columns |-> FALSE]
    /\ pc = "idle"
    /\ err = ""
    /\ offset = 0
    /\ cursor = NoneVal
    /\ rows = <<>>
    /\ inserted = 0
    /\ total = 0
    /\ attempt = 1
    /\ runs = 0
    /\ sinceFresh = {}
    /\ ddlLog = <<>>
    /\ resumeFrom = NoneVal
    /\ events = <<>>
    /\ lastExc = ""
    /\ exists = TRUE
    /\ prev = ""
    /\ importable = Registry
    /\ sched = <<>>
    /\ norm = <<>>
    /\ call = <<>>

NextKeys ==
    \/ \E i \in 1..2 : \E n \in 1..MaxPos : JobSet(i, n)
    \/ \E i \in 1..2 : JobGet(i)

SpecKeys == InitKeys /\ [][NextKeys]_vars

\* ====================================================== main_migration
\* A job of group g: <<g, j>>.
Slots == (1..NGroups) \X (1..NJobs)

\* config["databases"]: per group its "enabled" flag and the "enabled" flags
\* of its tables.
GroupConfigs == [1..NGroups -> [enabled : BOOLEAN, tables : [1..NJobs -> BOOLEAN]]]

\* The slots of group g for which main_migration creates a coroutine.
EnabledSlots(g) == {sl \in Slots : sl[1] = g /\ sched.groups[g].tables[sl[2]]}

\* A task: not created, running, returned, raised, or cancelled; n counts the
\* tasks created for the slot.
NoTask == [st |-> "none", n |-> 0]

\* An await that resumes as soon as one of the awaited tasks has finished.
gather_first_completed(g) ==
    IF \E sl \in EnabledSlots(g) : sched.task[sl].st = "failed" THEN "raise"
    ELSE IF EnabledSlots(g) = {} \/ \E sl \in EnabledSlots(g) : sched.task[sl].st = "done"
    THEN "return"
    ELSE "pending"

\* await asyncio.gather(*tasks), return_exceptions left False: the first
\* exception of a task is raised in the awaiting coroutine at once, the
\* other tasks are left running; it returns when every task has returned.
gather(g) ==
    IF \E sl \in EnabledSlots(g) : sched.task[sl].st = "failed" THEN "raise"
    ELSE IF \A sl \in EnabledSlots(g) : sched.task[sl].st = "done" THEN "return"
    ELSE "pending"

\* One iteration of `for db_group in config["databases"]` up to the await, or
\* the end of the loop: a disabled group is skipped; for an enabled one a
\* coroutine per enabled table is handed to gather, which schedules them all.
ForDbGroup ==
    /\ sched # <<>> /\ sched.main = "loop"
    /\ IF sched.g > NGroups
       THEN sched' = [sched EXCEPT !.main = "returned"]
       ELSE IF ~sched.groups[sched.g].enabled
       THEN sched' = [sched EXCEPT !.g = @ + 1]
       ELSE sched' = [sched EXCEPT
                !.main = "gather",
                !.task = [sl \in Slots |->
                            IF sl \in EnabledSlots(sched.g)
                            THEN [st |-> "running", n |-> sched.task[sl].n + 1]
                            ELSE sched.task[sl]]]
    /\ UNCHANGED <<file, jobVars, storeVars, norm, call>>

\* A running job ends: migrate_table / migrate_entry returns or raises.
TaskEnds(sl, ok) ==
    /\ sched # <<>> /\ sched.main # "closed"
    /\ sched.task[sl].st = "running"
    /\ sched' = [sched EXCEPT !.task[sl].st = IF ok THEN "done" ELSE "failed"]
    /\ UNCHANGED <<file, jobVars, storeVars, norm, call>>

\* main_migration resumes from the await: with the next group, or with the
\* exception, which it does not catch.
AwaitGather ==
    /\ sched # <<>> /\ sched.main = "gather"
    /\ gather(sched.g) # "pending"
    /\ sched' = IF gather(sched.g) = "raise"
                THEN [sched EXCEPT !.main = "raised"]
                ELSE [sched EXCEPT !.main = "loop", !.g = @ + 1]
    /\ UNCHANGED <<file, jobVars, storeVars, norm, call>>

\* asyncio.run(main_migration()) once main_migration has returned or raised:
\* it cancels every task that is still pending and closes the event loop.
asyncio_run_exit ==
    /\ sched # <<>> /\ sched.main \in {"returned", "raised"}
    /\ sched' = [sched EXCEPT
            !.main = "closed",
            !.task = [sl \in Slots |->
                        IF sched.task[sl].st = "running"
                        THEN [sched.task[sl] EXCEPT !.st = "cancelled"]
                        ELSE sched.task[sl]]]
    /\ UNCHANGED <<file, jobVars, storeVars, norm, call>>

InitSched ==
    /\ sched \in [groups : GroupConfigs, g : {1}, main : {"loop"},
                   task : {[sl \in Slots |-> NoTask]}]
    /\ norm = <<>>
    /\ call = <<>>
    /\ file = MissingFile
    /\ tmp = MissingFile
    /\ lock = 0
    /\ procs = <<>>
    /\ jobs = <<>>
    /\ target = <<>>
    /\ cfg = [path |-> "dl", nsort |-> 1, plugins |-> <<>>, recreate |-> TRUE,
              pre |-> FALSE, post |-> FALSE, group_by |-> FALSE, columns |-> FALSE]
    /\ pc = "idle"
    /\ err = ""
    /\ offset = 0
    /\ cursor = NoneVal
    /\ rows = <<>>
    /\ inserted = 0
    /\ total = 0
    /\ attempt = 1
    /\ runs = 0
    /\ sinceFresh = {}
    /\ ddlLog = <<>>
    /\ resumeFrom = NoneVal
    /\ events = <<>>
    /\ lastExc = ""
    /\ exists = TRUE
    /\ prev = ""
    /\ importable = Registry

NextSched ==
    \/ ForDbGroup
    \/ \E sl \in Slots : \E ok \in BOOLEAN : TaskEnds(sl, ok)
    \/ AwaitGather
    \/ asyncio_run_exit

SpecSched == InitSched /\ [][NextSched]_vars

\* ======================================================== normalize_col
\* Column names are sequences of characters. The characters that matter to
\* normalize_col: a lower-case letter, an upper-case letter and its
\* lower-case form, the underscore, a blank, and a punctuation mark.
Alphabet == {"a", "B", "_", " ", "-"}
Alnum == {"a", "B", "b"}
Whitespace == {" "}

\* The names normalize_col is given.
Names == UNION {[1..n -> Alphabet] : n \in 0..MaxNameLen}

RECURSIVE lstrip(_, _)
lstrip(s, chars) ==
    IF s # <<>> /\ Head(s) \in chars THEN lstrip(Tail(s), chars) ELSE s

RECURSIVE rstrip(_, _)
rstrip(s, chars) ==
    IF s # <<>> /\ s[Len(s)] \in chars THEN rstrip(SubSeq(s, 1, Len(s) - 1), chars)
    ELSE s

\* str.strip(chars).
strip(s, chars) == rstrip(lstrip(s, chars), chars)

\* re.sub(r'[<chars>]+', '_', s): every maximal run of characters of `chars`
\* becomes one underscore.
RECURSIVE re_sub(_, _)
re_sub(chars, s) ==
    IF s = <<>> THEN <<>>
    ELSE IF Head(s) \in chars THEN <<"_">> \o re_sub(chars, lstrip(s, chars))
    ELSE <<Head(s)>> \o re_sub(chars, Tail(s))

\* str.lower().
lower(s) == [i \in 1..Len(s) |-> IF s[i] = "B" THEN "b" ELSE s[i]]

\* normalize_col:
\*   name = re.sub(r'[^a-zA-Z0-9]+', '_', name.strip()).lower()
\*   return re.sub(r'_+', '_', name).strip('_')[:63]
normalize_col(name) ==
    LET subbed == lower(re_sub((Alphabet \cup Alnum) \ Alnum, strip(name, Whitespace)))
        stripped == strip(re_sub({"_"}, subbed), {"_"})
    IN  SubSeq(stripped, 1, Min(Len(stripped), MaxIdentLen))

\* normalize_col is applied to the name, then to its own result.
Normalize ==
    /\ norm # <<>> /\ Len(norm) < 3
    /\ norm' = Append(norm, normalize_col(norm[Len(norm)]))
    /\ UNCHANGED <<file, jobVars, storeVars, sched, call>>

InitNorm ==
    /\ norm \in {<<x>> : x \in Names}
    /\ call = <<>>
    /\ sched = <<>>
    /\ file = MissingFile
    /\ tmp = MissingFile
    /\ lock = 0
    /\ procs = <<>>
    /\ jobs = <<>>
    /\ target = <<>>
    /\ cfg = [path |-> "dl", nsort |-> 1, plugins |-> <<>>, recreate |-> TRUE,
              pre |-> FALSE, post |-> FALSE, group_by |-> FALSE, columns |-> FALSE]
    /\ pc = "idle"
    /\ err = ""
    /\ offset = 0
    /\ cursor = NoneVal
    /\ rows = <<>>
    /\ inserted = 0
    /\ total = 0
    /\ attempt = 1
    /\ runs = 0
    /\ sinceFresh = {}
    /\ ddlLog = <<>>
    /\ resumeFrom = NoneVal
    /\ events = <<>>
    /\ lastExc = ""
    /\ exists = TRUE
    /\ prev = ""
    /\ importable = Registry

NextNorm == Normalize

SpecNorm == InitNorm /\ [][NextNorm]_vars

\* ============================================================ single calls
\* No job runs, no process uses the store, main_migration is not started.
NothingRuns ==
    /\ sched = <<>>
    /\ norm = <<>>
    /\ file = MissingFile
    /\ tmp = MissingFile
    /\ lock = 0
    /\ procs = <<>>
    /\ jobs = <<>>
    /\ target = <<>>
    /\ cfg = [path |-> "dl", nsort |-> 1, plugins |-> <<>>, recreate |-> TRUE,
              pre |-> FALSE, post |-> FALSE, group_by |-> FALSE, columns |-> FALSE]
    /\ pc = "idle"
    /\ err = ""
    /\ offset = 0
    /\ cursor = NoneVal
    /\ rows = <<>>
    /\ inserted = 0
    /\ total = 0
    /\ attempt = 1
    /\ runs = 0
    /\ sinceFresh = {}
    /\ ddlLog = <<>>
    /\ resumeFrom = NoneVal
    /\ events = <<>>
    /\ lastExc = ""
    /\ exists = TRUE
    /\ prev = ""
    /\ importable = Registry

\* A call of fn on arg that has not run yet.
Call(fn, arg) == [fn |-> fn, arg |-> arg, done |-> FALSE, ret |-> <<>>]

\* The pending call of fn returns ret.
Returns(fn, ret) ==
    /\ call # <<>> /\ call.fn = fn /\ ~call.done
    /\ call' = [call EXCEPT !.done = TRUE, !.ret = ret]
    /\ UNCHANGED <<file, jobVars, storeVars, sched, norm>>

\* ---------------------------------------------- assess_change.py: decide
\* Ratings: criticality A-D, security A1, A2, B, C, D, the others A-D.
Ratings ==
    [criticality : {"A", "B", "C", "D"},
     security : {"A1", "A2", "B", "C", "D"},
     integrity : {"A", "B", "C", "D"},
     availability : {"A", "B", "C", "D"},
     resilience : {"A", "B", "C", "D"}]

Recommendation(required, arbs, mode) ==
    [required |-> required, arbs |-> arbs, mode |-> mode]

\* _arb_mapping: the boards of the ratings that are A (A1, A2), in order.
arb_mapping(security, integrity, availability, resilience) ==
    (IF security \in {"A1", "A2"} THEN <<"Security">> ELSE <<>>)
    \o (IF integrity = "A" THEN <<"Data">> ELSE <<>>)
    \o (IF availability = "A" THEN <<"EA">> ELSE <<>>)
    \o (IF resilience = "A" THEN <<"Service Transition">> ELSE <<>>)

\* ", ".join(arbs) if arbs else "EA".
ArbsOrEA(r) ==
    LET arbs == arb_mapping(r.security, r.integrity, r.availability, r.resilience)
    IN  IF arbs = <<>> THEN <<"EA">> ELSE arbs

\* `sec_ok and others_ok` of the B and the C rules.
AllAtMostB(r) ==
    /\ r.security \notin {"A1", "A2"}
    /\ r.integrity \in {"B", "C", "D"}
    /\ r.availability \in {"B", "C", "D"}
    /\ r.resilience \in {"B", "C", "D"}

\* The default fall-through at the end of decide.
FallThrough == Recommendation("No", <<>>, "Express to prod")

\* decide: the first rule that returns, the rules of the application's
\* criticality in the order of the code; the fall-through otherwise.
decide(r) ==
    IF r.criticality = "A"
    THEN Recommendation("Yes - Mandatory", <<"All ARBs">>, "Full review")
    ELSE IF r.criticality = "B"
    THEN IF \/ r.security \in {"A1", "A2"} \/ r.integrity = "A"
            \/ r.availability = "A" \/ r.resilience = "A"
         THEN Recommendation("Yes - Mandatory", ArbsOrEA(r), "Full review")
         ELSE IF AllAtMostB(r)
         THEN Recommendation("Yes - Conditional", <<"EA">>, "Scoped review")
         ELSE FallThrough
    ELSE IF r.criticality = "C"
    THEN IF r.security = "A1"
         THEN Recommendation("Yes - Mandatory", <<"Security">>, "Full review")
         ELSE IF r.integrity = "A" /\ r.resilience = "A"
         THEN Recommendation("Yes - Mandatory", <<"Data", "Service Transition">>, "Full review")
         ELSE IF r.availability = "A"
         THEN Recommendation("Yes - Conditional", <<"EA">>, "Scoped review")
         ELSE FallThrough
    ELSE IF r.security = "D" /\ r.integrity = "D" /\ r.availability = "D" /\ r.resilience = "D"
    THEN Recommendation("No", <<>>, "Express to prod")
    ELSE IF \/ r.security \in {"A1", "A2", "A", "B"} \/ r.integrity \in {"A", "B"}
            \/ r.availability \in {"A", "B"} \/ r.resilience \in {"A", "B"}
    THEN Recommendation("Yes - Conditional", ArbsOrEA(r), "Scoped review")
    ELSE FallThrough

Decide == Returns("decide", decide(call.arg))

\* --------------------------------------------- schema translation
\* A Postgres type: its name and, for varchar(n), n (0: no length).
PgType(name, n) == [name |-> name, len |-> n]

\* DATA_TYPE values of the catalog: the character types, types of the
\* lookup table, types it does not list, and upper-case spellings.
SqlTypes ==
    {"varchar", "nvarchar", "char", "nchar", "int", "bigint", "smallint",
     "bit", "decimal", "numeric", "float", "real", "uniqueidentifier",
     "varbinary", "datetime", "datetime2", "date", "time", "smalldatetime",
     "money", "xml", "INT", "NVARCHAR"}

\* sql_type.lower().
type_lower(t) ==
    IF t = "INT" THEN "int" ELSE IF t = "NVARCHAR" THEN "nvarchar" ELSE t

\* CHARACTER_MAXIMUM_LENGTH: <<>> for None (NULL in the catalog), <<n>> for
\* n; -1 is what the catalog holds for varchar(max).
MaxLens == {<<>>, <<-1>>, <<0>>, <<1>>, <<50>>}

\* The dict literal of sqlserver_to_postgres_type.
TypeTable ==
    [t \in {"int", "bigint", "smallint", "bit", "decimal", "numeric", "float",
            "real", "uniqueidentifier", "varbinary", "datetime", "datetime2",
            "date", "time", "smalldatetime"} |->
        IF t = "int" THEN "integer"
        ELSE IF t = "bit" THEN "boolean"
        ELSE IF t = "decimal" THEN "numeric"
        ELSE IF t = "float" THEN "double precision"
        ELSE IF t = "uniqueidentifier" THEN "uuid"
        ELSE IF t = "varbinary" THEN "bytea"
        ELSE IF t \in {"datetime", "datetime2", "smalldatetime"} THEN "timestamptz"
        ELSE t]

\* The character types get varchar(max_len) whenever a length is given.
sqlserver_to_postgres_type_any_len(sql_type, max_len) ==
    LET t == type_lower(sql_type)
    IN  IF t \in {"varchar", "nvarchar", "char", "nchar"}
        THEN IF max_len # <<>> THEN PgType("varchar", max_len[1])
             ELSE PgType("text", 0)
        ELSE IF t \in DOMAIN TypeTable THEN PgType(TypeTable[t], 0)
        ELSE PgType("text", 0)

\* sqlserver_to_postgres_type: f"varchar({max_len})" if max_len and
\* max_len > 0 else "text" for the character types; {...}.get(t, "text").
sqlserver_to_postgres_type(sql_type, max_len) ==
    LET t == type_lower(sql_type)
    IN  IF t \in {"varchar", "nvarchar", "char", "nchar"}
        THEN IF max_len # <<>> /\ max_len[1] # 0 /\ max_len[1] > 0
             THEN PgType("varchar", max_len[1])
             ELSE PgType("text", 0)
        ELSE IF t \in DOMAIN TypeTable THEN PgType(TypeTable[t], 0)
        ELSE PgType("text", 0)

MapType == Returns("type", sqlserver_to_postgres_type(call.arg.sql_type, call.arg.max_len))

\* A row of INFORMATION_SCHEMA.COLUMNS.
Column(name, type, nullable, max_len) ==
    [name |-> name, type |-> type, nullable |-> nullable, max_len |-> max_len]

\* The columns of the source table, in ordinal order.
Catalog ==
    << Column(<<"B", " ", "a">>, "int", "NO", <<>>),
       Column(<<"a", "-", "B">>, "varchar", "YES", <<50>>),
       Column(<<"a">>, "nvarchar", "YES", <<-1>>),
       Column(<<"b">>, "xml", "YES", <<>>) >>

\* Names a descriptor's "columns" list may hold: columns of the table as
\* they are spelled, in another case, with blanks around them, and a name
\* the table does not have.
WantNames ==
    {<<"B", " ", "a">>, <<"b", " ", "a">>, <<" ", "a", " ">>, <<"B">>, <<"a", "a">>}

\* The "columns" lists: none, or up to two names.
Selections == {<<>>} \cup {<<x>> : x \in WantNames} \cup (WantNames \X WantNames)

\* One line of the DDL: f'"{norm_col}" {pg_type}' + " NOT NULL" if
\* nullable == "NO".
ddl_line(col) ==
    [name |-> normalize_col(col.name),
     type |-> sqlserver_to_postgres_type(col.type, col.max_len),
     not_null |-> col.nullable = "NO"]

\* want_lc_index = {c.lower(): i for i, c in enumerate(want)}: the places of
\* a name in want, and the one the dict keeps (the last).
WantPlaces(want, name) == {i \in 1..Len(want) : lower(want[i]) = lower(name)}
want_lc_index(want, name) ==
    CHOOSE i \in WantPlaces(want, name) : \A j \in WantPlaces(want, name) : j <= i

\* rows.sort(key=want_lc_index[...]) of the rows kept: the rows whose index
\* is i, for i = from .. Len(want), each group in catalog order.
RECURSIVE SortedByIndex(_, _, _)
SortedByIndex(kept, want, from) ==
    IF from > Len(want) THEN <<>>
    ELSE SelectSeq(kept, LAMBDA r : want_lc_index(want, r.name) = from)
         \o SortedByIndex(kept, want, from + 1)

\* extract_sqlserver_schema (data_loader.py) on the catalog rows `columns`:
\* with a column list, want = the stripped names, want_lc_index maps each
\* lower-cased name to its (last) position, the rows whose lower-cased name
\* is in it are kept and sorted by that position; then one line per row.
extract_sqlserver_schema(columns, selected_columns) ==
    LET want == [i \in 1..Len(selected_columns) |->
                    strip(selected_columns[i], Whitespace)]
        kept == SelectSeq(columns, LAMBDA r : WantPlaces(want, r.name) # {})
        rws == IF selected_columns # <<>>
               THEN SortedByIndex(kept, want, 1)
               ELSE columns
    IN  [exc |-> "none", lines |-> [i \in 1..Len(rws) |-> ddl_line(rws[i])]]

ExtractSchemaCall ==
    Returns("extract", extract_sqlserver_schema(call.arg.columns, call.arg.selected))

\* ------------------------------------------------------ transform chains
\* The "plugins" lists of resolvable references, up to MaxChainLen long.
Chains == UNION {[1..n -> Registry] : n \in 0..MaxChainLen}

\* Chunks handed to the chain: runs of consecutive source rows, or none.
RowLists == {SubSeq(Source, a, b) : a, b \in 1..NRows}

ApplyChain == Returns("chain", apply_plugin_chain(call.arg.rows, call.arg.plugins))

\* ------------------------------------------------- keyset fetch after a chunk
\* What a row holds in a column: <<>> for SQL NULL (None in the dict pyodbc
\* returns), <<n>> for the value n.
ColumnValues == {<<>>} \cup {<<n>> : n \in 1..MaxPos}

\* fetch_keyset_chunk_generic: the query it builds. Without both values it
\* is the first-chunk query, ORDER BY ... OFFSET 0 with no WHERE; with them,
\* the query filtered by the cursor predicate.
fetch_keyset_chunk_generic(last_sort_value, last_unique_value) ==
    IF last_sort_value = <<>> \/ last_unique_value = <<>>
    THEN [query |-> "first_chunk", params |-> <<>>]
    ELSE [query |-> "after_cursor",
          params |-> <<last_sort_value, last_sort_value, last_unique_value>>]

\* migrate_entry's keyset loop after an insert: last_sort and last_unique
\* are taken from last_row = rows[-1] and passed to the next fetch.
NextKeysetFetch ==
    Returns("keyset", fetch_keyset_chunk_generic(call.arg.last_row.sort,
                                                 call.arg.last_row.unique))

InitCalls ==
    /\ NothingRuns
    /\ call \in {Call("decide", r) : r \in Ratings}
            \cup {Call("type", [sql_type |-> t, max_len |-> n]) :
                    t \in SqlTypes, n \in MaxLens}
            \cup {Call("extract", [columns |-> Catalog, selected |-> sel]) :
                    sel \in Selections}
            \cup {Call("chain", [rows |-> rs, plugins |-> ch]) :
                    rs \in RowLists, ch \in Chains}
            \cup {Call("keyset", [last_row |-> [sort |-> sv, unique |-> uv]]) :
                    sv \in ColumnValues, uv \in ColumnValues}

NextCalls ==
    \/ Decide
    \/ MapType
    \/ ExtractSchemaCall
    \/ ApplyChain
    \/ NextKeysetFetch

SpecCalls == InitCalls /\ [][NextCalls]_vars

\* =============================================================== claims
\* Every source row is in the target exactly once.
ExactlyOnce ==
    /\ Len(target) = NRows
    /\ \A r \in 1..NRows : Cardinality({i \in DOMAIN target : target[i] = r}) = 1

\* A paged table job of data_loader.py without transforms.
DlPagedPlain == cfg.path = "dl" /\ uses_paging /\ cfg.plugins = <<>>

\* The integer stored under the job's key (0 when there is none).
StoredOffset == IF StoredPosition.t = "int" THEN StoredPosition.n ELSE 0

\* C1: data_loader.py, paged loop: when the only mishap since the target was
\* last empty is a crash after insert_chunk_pg succeeded and before
\* write_checkpoint_keyed ran, a restart that runs to completion leaves every
\* source row in the target exactly once.
C1_ExactlyOnceAfterCrash ==
    (pc = "done" /\ DlPagedPlain /\ sinceFresh = {"crash_before_ckpt"})
        => ExactlyOnce

\* C2: data_loader.py, offset paging over an unchanging source with a unique
\* sort order: when the runs since the target was last empty all failed for
\* good (retries exhausted or another error raised), the run that resumes
\* from their checkpoint and completes leaves every source row in the target
\* exactly once, in source order, as a clean full run does.
C2_Resumability ==
    (pc = "done" /\ DlPagedPlain /\ sinceFresh = {"failed"})
        => (ExactlyOnce /\ target = Source)

\* C2's case: a run with recreate disabled resumed behind chunks a failed
\* run had inserted and checkpointed, inserted only the remaining rows and
\* completed.
C2_Witness ==
    /\ pc = "done" /\ DlPagedPlain /\ sinceFresh = {"failed"}
    /\ ~cfg.recreate
    /\ resumeFrom = IntVal(CHUNK_SIZE)
    /\ total = NRows - CHUNK_SIZE
    /\ target = Source

\* C3: when a fetch or an insert fails for good in the paged loop of a table
\* job (either loader), the job is Failed and the stored Resume Position is
\* the position reached by the last successfully inserted chunk.
C3_NoRewindOnFailure ==
    (pc = "failed" /\ err \in {"fetch", "insert"}
        /\ cfg.path \in {"dl", "ext_table"} /\ uses_paging)
        => StoredOffset = offset

\* C4: a run of a table job (either loader) that starts with a non-zero
\* stored Resume Position executes no DROP TABLE / CREATE TABLE.
C4_ResumeNeverDrops ==
    (cfg.path \in {"dl", "ext_table"} /\ resumeFrom.t = "int" /\ resumeFrom.n > 0)
        => \A i \in DOMAIN ddlLog : ddlLog[i] \notin {"drop", "create"}

\* C5: for a paged table job the stored integer Resume Position never
\* exceeds the number of rows inserted into the current target table.
C5_CheckpointNotAhead ==
    (cfg.path \in {"dl", "ext_table"} /\ uses_paging)
        => StoredOffset <= Len(target)

\* C6: when a paginated job (offset or keyset, table or query) has completed,
\* the Resume Position stored for its key is fresh (0, or no cursor).
C6_CompletionResets ==
    (pc = "done" /\ ~(cfg.path = "dl" /\ ~uses_paging))
        => StoredPosition \in {NoneVal, IntVal(0)}

\* C7: in every pagination strategy, when the job is about to fetch the next
\* chunk after a successful insert, the checkpoint store holds the advanced
\* Resume Position.
C7_ProgressPersisted ==
    (pc = "fetch" /\ total > 0 /\ ~(cfg.path = "dl" /\ ~uses_paging))
        => /\ file.kind = "ok"
           /\ \E k \in DOMAIN file.data : file.data[k] = LocalPosition

\* C8: when two processes have set checkpoints for two different job keys
\* and both sets have returned, the store holds both new entries.
C8_NoLostUpdate ==
    \A p, q \in Procs :
        (/\ p # q
         /\ procs[p].pc = "returned" /\ procs[p].op = "set"
         /\ procs[p].ret.exc = "none"
         /\ procs[q].pc = "returned" /\ procs[q].op = "set"
         /\ procs[q].ret.exc = "none")
        => /\ file.kind = "ok"
           /\ KeyFor(p) \in DOMAIN file.data
           /\ file.data[KeyFor(p)] = ValueFor(p)
           /\ KeyFor(q) \in DOMAIN file.data
           /\ file.data[KeyFor(q)] = ValueFor(q)

\* A step that changes the checkpoint file is the rename of one set, and
\* puts there the complete document that set computed.
FileReplacedWhole ==
    file' # file =>
        \E p \in Procs :
            /\ procs[p].pc = "written"
            /\ procs[p].data.kind = "ok"
            /\ file' = procs[p].data

\* C9: at every instant of a set, and after a crash at any step of it, the
\* checkpoint file holds the complete previous document or the complete new
\* one, never a partly written one, so that no get finds a partly written
\* file.
C9_AtomicReplacement ==
    /\ [](file.kind # "partial")
    /\ [](\A p \in Procs : procs[p].seen.kind # "partial")
    /\ [][FileReplacedWhole]_vars

\* C9's case: a set had written a part of its text when its process died,
\* the partly written temp file is still there, and another process has
\* just read the checkpoint file, which holds a complete document.
C9_Witness ==
    /\ tmp.kind = "partial"
    /\ file.kind = "ok"
    /\ DOMAIN file.data # {}
    /\ \E p \in Procs :
        /\ procs[p].pc = "returned" /\ procs[p].op = "get"
        /\ procs[p].seen.kind = "ok"
    /\ \A p \in Procs : procs[p].pc \in {"idle", "returned"}

\* C10: read_checkpoint_keyed, read_checkpoint and read_keyset_checkpoint
\* never raise, and return the fresh value when the file is missing, is not
\* a valid store document, or lacks the key.
C10_GetFailsOpen ==
    \A p \in Procs :
        (procs[p].pc = "returned" /\ procs[p].op = "get")
        => /\ procs[p].ret.exc = "none"
           /\ (procs[p].seen.kind # "ok" \/ ~procs[p].seen.haskey)
                => procs[p].ret.val = Fresh(procs[p].fl)

\* C12: a job whose recreate flag is false executes no schema-setup step: no
\* schema extraction, no drop/create, no pre/post schema script.
C12_RecreateGatesSchema ==
    (pc # "idle" /\ ~cfg.recreate)
        => /\ ddlLog = <<>>
           /\ pc \notin {"pre", "extract", "recreate", "post"}

\* Number of chunks of the source.
NChunks == (NRows + CHUNK_SIZE - 1) \div CHUNK_SIZE

\* Scenario A: data_loader.py, one sort column, no transforms, started with a
\* fresh store entry.
ScenarioA ==
    /\ cfg.path = "dl" /\ cfg.nsort = 1 /\ cfg.plugins = <<>>
    /\ resumeFrom \in {NoneVal, IntVal(0)}

\* The fetches and checkpoint writes of the run, in order.
ProgressEvents == SelectSeq(events, LAMBDA x : x.e \in {"fetch", "write"})

\* Fetch at 0, write CHUNK_SIZE, fetch at CHUNK_SIZE, ... , write NRows, the
\* fetch at NRows that returns no rows, write 0.
ScenarioAEvents ==
    [i \in 1..(2 * NChunks + 2) |->
        IF i = 2 * NChunks + 1 THEN Ev("fetch", IntVal(NRows))
        ELSE IF i = 2 * NChunks + 2 THEN Ev("write", IntVal(0))
        ELSE IF i % 2 = 1 THEN Ev("fetch", IntVal(((i - 1) \div 2) * CHUNK_SIZE))
        ELSE Ev("write", IntVal(Min((i \div 2) * CHUNK_SIZE, NRows)))]

\* C13: Scenario A (5 rows, batch size 2): the fetches that return the chunks
\* are issued at offsets 0, 2, 4, the checkpoint written after each inserted
\* chunk is 2, 4, 5 in that order, the loop ends on the fetch that returns no
\* rows, and the checkpoint stored after completion is 0.
C13_ScenarioA ==
    (pc = "done" /\ ScenarioA)
        => /\ ProgressEvents = ScenarioAEvents
           /\ StoredPosition = IntVal(0)

\* C13's case: the fresh run of Scenario A has completed, having written
\* one checkpoint per chunk and the final one.
C13_Witness ==
    /\ pc = "done" /\ ScenarioA /\ runs = 1
    /\ target = Source
    /\ Len(EventsOf("write")) = NChunks + 1
    /\ EventsOf("write")[NChunks] = IntVal(NRows)

\* C14: Scenario B: a data_loader.py job without sort columns issues a single
\* unpaged fetch, never writes the checkpoint store (not at completion
\* either), and logs the no-sort-columns warning exactly once per run.
C14_ScenarioB ==
    (/\ cfg.path = "dl" /\ cfg.nsort = 0 /\ ~GroupByRejected(cfg)
     /\ pc \in Running \cup {"done", "failed"})
        => /\ Len(EventsOf("warn")) = 1
           /\ Len(EventsOf("fetch")) <= 1
           /\ (pc = "done" => EventsOf("fetch") = <<NoneVal>>)
           /\ EventsOf("write") = <<>>

\* C15: Scenario D: a data_loader.py job with GROUP BY columns and no explicit
\* column list is rejected by _build_base_sql before the checkpoint store is
\* read and before anything is sent to the source or the target: the job is
\* Failed and nothing has happened.
C15_ScenarioD ==
    (cfg.path = "dl" /\ cfg.group_by /\ ~cfg.columns /\ pc # "idle")
        => /\ pc = "failed" /\ err = "config" /\ lastExc = "ValueError"
           /\ events = <<>>
           /\ ddlLog = <<>>
           /\ total = 0
           /\ target = <<>>
           /\ file = MissingFile

\* C15's case: the job with GROUP BY and no column list has been started
\* twice and was rejected.
C15_Witness ==
    /\ cfg.path = "dl" /\ cfg.group_by /\ ~cfg.columns
    /\ runs = MaxRuns
    /\ pc = "failed" /\ err = "config"

\* C16: a data_loader_ext.py job that has no sort columns (table or query
\* source) has no effect: no schema script, no drop/create, no fetch, no
\* insert, and its rejection is not retried.
C16_InvalidNeverStarts ==
    (cfg.path \in {"ext_table", "ext_query"} /\ cfg.nsort = 0)
        => /\ \A i \in DOMAIN ddlLog : ddlLog[i] \notin {"pre", "post", "drop", "create"}
           /\ EventsOf("fetch") = <<>>
           /\ attempt = 1
           /\ target = <<>>

\* A call under a retry decorator is in progress.
InRetriedCall == pc = "insert" \/ (pc = "fetch" /\ FetchRetried)

\* What a step out of a retry-wrapped call does: another attempt while fewer
\* than RetryMax were made; failure of the job, for the call's own error
\* only after attempt RetryMax; or the job goes on with the attempt's result.
RetryStep ==
    InRetriedCall =>
        \/ pc' = pc /\ attempt' = attempt + 1 /\ attempt < RetryMax
        \/ pc' = "failed" /\ err' \in {"fetch", "insert"} /\ attempt = RetryMax
        \/ pc' = "failed" /\ err' = "plugin"
        \/ /\ pc = "fetch" /\ pc' \in {"insert", "complete"}
           /\ rows' = apply_plugin_chain(FetchWindow, cfg.plugins).rows
        \/ /\ pc = "insert" /\ pc' \in {"ckpt", "complete"}
           /\ target' = target \o rows
        \/ pc' = "crashed"

\* C17: a call of the retry-wrapped fetch_chunk_sqlserver or insert_chunk_pg
\* is attempted at most RetryMax (5) times; when all attempts failed the job
\* is Failed; when an attempt succeeds the job goes on with its result.
C17_BoundedRetries ==
    /\ [](attempt \in 1..RetryMax)
    /\ []((pc = "failed" /\ (err = "insert" \/ (err = "fetch" /\ FetchRetried)))
            => attempt = RetryMax)
    /\ [][RetryStep]_vars

\* C17's case: the fifth attempt of an insert failed after a fetch that
\* succeeded, and the job is Failed.
C17_Witness ==
    /\ pc = "failed" /\ err = "insert"
    /\ attempt = RetryMax
    /\ rows # <<>>

\* C18: in every pagination strategy a failed fetch attempt is followed by
\* another attempt: a job fails on a fetch only after RetryMax attempts.
C18_EveryFetchRetried ==
    (pc = "failed" /\ err = "fetch") => attempt = RetryMax

\* C19: an insert_chunk_pg attempt that fails on the shape of the chunk ends
\* the job at once: there is no second attempt.
C19_MismatchNotRetried ==
    lastExc = "DataError" => (pc = "failed" /\ attempt = 1)

\* C20: when a step of schema setup has failed, the job is Failed, the step
\* was not tried again, no chunk was fetched or inserted and the checkpoint
\* store was not written.
C20_SchemaFailureFatal ==
    lastExc = "ddl"
        => /\ pc = "failed" /\ err = "schema"
           /\ attempt = 1
           /\ EventsOf("fetch") = <<>>
           /\ EventsOf("write") = <<>>
           /\ total = 0

\* C20's case: the post-schema script failed after the target had been
\* dropped and created.
C20_Witness ==
    /\ lastExc = "ddl" /\ pc = "failed"
    /\ cfg.post
    /\ ddlLog = <<"extract", "drop", "create">>

\* C11: two jobs that differ in source locator, target locator, source
\* entity or destination entity use different checkpoint entries: what a job
\* reads as its Resume Position is what that job itself stored last (the
\* fresh value when it stored nothing).
C11_JobKeysSeparate ==
    \A i \in 1..2 :
        jobs[i].got # NotRead => jobs[i].got = jobs[i].pos

\* C21: recreate_pg_table replaces the target table atomically. A failed
\* recreate_pg_table (its CREATE TABLE included) leaves the target table and
\* its rows as they were, and no step of the job takes a target table that
\* exists to a committed state without it.
C21_AtomicReplace ==
    [][ /\ (exists => exists')
        /\ (pc = "recreate" /\ pc' = "failed"
              => target' = target /\ exists' = exists) ]_vars

\* C21's case: CREATE TABLE failed on a target that held rows of an earlier
\* run; the table and the rows are still there.
C21_Witness ==
    /\ pc = "failed"
    /\ ddlLog # <<>> /\ ddlLog[Len(ddlLog)] = "create_failed"
    /\ exists /\ target # <<>>

\* The rows the current run has inserted, in insertion order.
InsertedThisRun == SubSeq(target, Len(target) - total + 1, Len(target))

\* Row r's (sort, unique) pair is strictly greater than the pair p.
PairAfter(r, p) ==
    \/ p.s < SortOf(r)
    \/ p.s = SortOf(r) /\ p.u < UniqueOf(r)

\* C22: keyset monotonicity. In a keyset job, every row of a chunk fetched
\* after a pair was checkpointed has a (sort, unique) pair strictly greater
\* than the checkpointed pair, and no row is inserted twice within one run.
C22_KeysetMonotone ==
    IsKeyset =>
        /\ (pc \in {"insert", "ckpt"} /\ StoredPosition.t = "cur"
              => /\ cursor = StoredPosition
                 /\ \A i \in DOMAIN FetchWindow : PairAfter(FetchWindow[i], StoredPosition)
                 /\ \A i \in DOMAIN rows : PairAfter(rows[i], StoredPosition))
        /\ \A i, j \in DOMAIN InsertedThisRun :
              InsertedThisRun[i] = InsertedThisRun[j] => i = j

\* C22's case: a keyset run has a later chunk in hand, fetched after the
\* pair of an earlier chunk of the same run was checkpointed.
C22_Witness ==
    /\ IsKeyset /\ pc = "ckpt"
    /\ StoredPosition.t = "cur"
    /\ total > CHUNK_SIZE
    /\ rows # <<>>

\* C23: in a keyset job the stored cursor changes only in the step after a
\* successful insert_chunk_pg, to the pair of the last row of the chunk just
\* inserted; an insert that fails leaves the stored cursor as it was.
C23_CursorFromInserted ==
    [][ IsKeyset =>
          /\ (StoredPosition' # StoredPosition
                => /\ pc = "ckpt" /\ inserted > 0
                   /\ target # <<>>
                   /\ StoredPosition' = CurVal(SortOf(target[Len(target)]),
                                               UniqueOf(target[Len(target)])))
          /\ (pc = "insert" /\ pc' = "failed" => StoredPosition' = StoredPosition) ]_vars

\* C23's case: the transform chain dropped the tail of the fetched chunk and
\* the cursor of the shorter chunk that was inserted has been stored.
C23_Witness ==
    /\ IsKeyset /\ pc = "fetch"
    /\ rows # <<>> /\ Len(rows) < CHUNK_SIZE
    /\ target # <<>> /\ rows[Len(rows)] = target[Len(target)]
    /\ StoredPosition = CurVal(SortOf(rows[Len(rows)]), UniqueOf(rows[Len(rows)]))
    /\ Len(FetchKeyset(StoredPosition, CHUNK_SIZE)) = CHUNK_SIZE

\* The strategy the selection rule names for a number of sort columns.
SelectedBySortColumns(n) ==
    IF n >= 2 THEN "keyset" ELSE IF n = 1 THEN "offset" ELSE "single"

\* C24: every job, on a table or on a query, reads its source with the
\* strategy its number of sort columns selects: keyset for two or more,
\* offset for exactly one, single-shot for none; and the job is not refused
\* for its number of sort columns.
C24_StrategySelection ==
    /\ (pc \in {"fetch", "insert", "ckpt"} => Strategy = SelectedBySortColumns(cfg.nsort))
    /\ ~(pc = "failed" /\ lastExc = "ValueError" /\ ~GroupByRejected(cfg))

\* C27: every run of a job over the finite, unchanging source ends: a run
\* that is under way eventually is Completed or Failed (or was killed),
\* whatever the transform chain returns.
C27_Termination ==
    (pc \in Running) ~> (pc \in {"done", "failed", "crashed"})

\* C28: a re-run is a full refresh. A completed job leaves the store, for
\* its key, as a job that never started leaves it; and a run with recreate
\* enabled that follows a completed run recreates the target and completes
\* with every source row in the target exactly once (jobs without transforms).
C28_RerunIsFullRefresh ==
    /\ (pc = "done" => StoredPosition \in {NoneVal, IntVal(0)})
    /\ (pc = "done" /\ prev = "done" /\ cfg.recreate /\ cfg.plugins = <<>>
          => /\ \E i \in DOMAIN ddlLog : ddlLog[i] = "create"
             /\ ExactlyOnce)

\* C29: when a plugin of the transform chain cannot be resolved the job
\* fails at once, no row of the chunk is inserted and the stored Resume
\* Position stays what it was before the chunk.
C29_PluginFailureWritesNothing ==
    [][ (pc = "fetch" /\ pc' = "failed" /\ err' = "plugin")
          => /\ target' = target
             /\ StoredPosition' \in {StoredPosition, IntVal(StoredOffset)}
             /\ StoredOffset' = StoredOffset ]_vars

\* Group g has been started: main_migration has handed its jobs to gather.
GroupStarted(g) ==
    sched.g > g \/ (sched.g = g /\ sched.main \in {"gather", "raised", "closed"})

\* C25: a job that fails does not take the other jobs of its group with it:
\* no job that was started is cancelled; each runs until it returns or raises.
C25_FailureIsolation ==
    \A sl \in Slots : sched.task[sl].st # "cancelled"

\* C26: main_migration creates exactly one task for every enabled job of an
\* enabled group, all of a group at once, and none for a disabled job or
\* group; while a job of a group is still running no job of a later group
\* has been started.
C26_FanOutAndJoin ==
    /\ \A sl \in Slots :
          /\ sched.task[sl].n <= 1
          /\ sched.task[sl].n = 1
                <=> /\ sched.groups[sl[1]].enabled
                    /\ sched.groups[sl[1]].tables[sl[2]]
                    /\ GroupStarted(sl[1])
    /\ \A s1, s2 \in Slots :
          s1[1] < s2[1] /\ sched.task[s2].n > 0 => sched.task[s1].st # "running"

\* C26's case: every job of the first group has returned and the jobs of the
\* next group are running, next to a job that is disabled.
C26_Witness ==
    /\ sched.main = "gather" /\ sched.g = 2
    /\ sched.task[<<1, 1>>].st = "done"
    /\ sched.task[<<1, 2>>].st = "done"
    /\ sched.task[<<2, 1>>].st = "running"
    /\ sched.task[<<2, 2>>].st = "none"

\* C30: normalize_col is idempotent: applied to its own result it returns
\* that result, for every name, those cut at the length limit included.
C30_NormalizeIdempotent ==
    Len(norm) = 3 => norm[3] = norm[2]

\* How strong a requirement is: Mandatory > Conditional > No.
RequirementLevel(rec) ==
    IF rec.required = "Yes - Mandatory" THEN 2
    ELSE IF rec.required = "Yes - Conditional" THEN 1
    ELSE 0

\* How critical an application is: A > B > C > D.
CriticalityRank(c) ==
    IF c = "A" THEN 4 ELSE IF c = "B" THEN 3 ELSE IF c = "C" THEN 2 ELSE 1

\* C40: decide is monotone in criticality: with the other four ratings
\* fixed, what it returns for an application is at least as strong a
\* requirement as what it returns for any less critical application.
C40_DecideMonotone ==
    (call # <<>> /\ call.fn = "decide" /\ call.done)
        => \A c \in {"A", "B", "C", "D"} :
              CriticalityRank(c) < CriticalityRank(call.arg.criticality)
                => RequirementLevel(decide([call.arg EXCEPT !.criticality = c]))
                     <= RequirementLevel(call.ret)

\* C31: extract_sqlserver_schema given a column list that names a column
\* the source table does not have fails with an error; it does not return
\* DDL without that column.
C31_UnknownColumnIsError ==
    (/\ call # <<>> /\ call.fn = "extract" /\ call.done
     /\ \E i \in DOMAIN call.arg.selected :
           \A k \in DOMAIN call.arg.columns :
              lower(strip(call.arg.selected[i], Whitespace))
                 # lower(call.arg.columns[k].name))
        => call.ret.exc # "none"

\* The Postgres type name the lookup table gives for a listed type.
ListedType(t) ==
    CASE t = "int" -> "integer"
      [] t = "bigint" -> "bigint"
      [] t = "smallint" -> "smallint"
      [] t = "bit" -> "boolean"
      [] t \in {"decimal", "numeric"} -> "numeric"
      [] t = "float" -> "double precision"
      [] t = "real" -> "real"
      [] t = "uniqueidentifier" -> "uuid"
      [] t = "varbinary" -> "bytea"
      [] t \in {"datetime", "datetime2", "smalldatetime"} -> "timestamptz"
      [] t = "date" -> "date"
      [] t = "time" -> "time"
      [] OTHER -> "text"

\* C32: sqlserver_to_postgres_type gives varchar(n) for a character type
\* with a known positive length n and text for one without, the table's
\* type for a listed type, and text for every other type name; and the
\* columns "B a" int and "a-B" varchar(50) (the forms of 'User Id' and
\* 'Full-Name' within the modelled name length) become b_a integer and
\* a_b varchar(50).
C32_TypeMapping ==
    /\ (call # <<>> /\ call.fn = "type" /\ call.done)
          => LET t == type_lower(call.arg.sql_type)
                 n == call.arg.max_len
             IN  IF t \in {"varchar", "nvarchar", "char", "nchar"}
                 THEN IF n # <<>> /\ n[1] > 0
                      THEN call.ret = PgType("varchar", n[1])
                      ELSE call.ret = PgType("text", 0)
                 ELSE call.ret = PgType(ListedType(t), 0)
    /\ (call # <<>> /\ call.fn = "extract" /\ call.done /\ call.arg.selected = <<>>)
          => /\ call.ret.exc = "none" /\ Len(call.ret.lines) = Len(Catalog)
             /\ call.ret.lines[1].name = <<"b", "_", "a">>
             /\ call.ret.lines[1].type = PgType("integer", 0)
             /\ call.ret.lines[2].name = <<"a", "_", "b">>
             /\ call.ret.lines[2].type = PgType("varchar", 50)

\* C32's case: a character type whose catalog length is -1 (varchar(max)),
\* spelled in upper case, has been mapped to text.
C32_Witness ==
    /\ call # <<>> /\ call.fn = "type" /\ call.done
    /\ call.arg.sql_type = "NVARCHAR" /\ call.arg.max_len = <<-1>>
    /\ call.ret = PgType("text", 0)

\* fk(...f2(f1(rs))...) for the first k references of chain.
RECURSIVE InOrder(_, _, _)
InOrder(rs, chain, k) ==
    IF k = 0 THEN rs ELSE PluginFn(chain[k], InOrder(rs, chain, k - 1))

\* C33: apply_plugin_chain applies the referenced functions in list order,
\* each to the result of the one before: for [f1, ..., fn] it returns
\* fn(...f2(f1(rows))...), and the rows themselves for an empty list.
C33_ChainOrder ==
    (call # <<>> /\ call.fn = "chain" /\ call.done)
        => /\ call.ret.exc = "none"
           /\ call.ret.rows = InOrder(call.arg.rows, call.arg.plugins, Len(call.arg.plugins))
           /\ (call.arg.plugins = <<>> => call.ret.rows = call.arg.rows)

\* C33's case: a chain of two functions whose order matters has been
\* applied: dropping the even rows of <<2, 3>> and then taking the first
\* row gives <<3>> (the other order gives no row).
C33_Witness ==
    /\ call # <<>> /\ call.fn = "chain" /\ call.done
    /\ call.arg.rows = <<2, 3>>
    /\ call.arg.plugins = <<"plugins.drop_even", "plugins.head">>
    /\ call.ret.rows = <<3>>

\* The current run executed schema statement x.
Ran(x) == \E i \in DOMAIN ddlLog : ddlLog[i] = x

\* Whatever the current run executed of x and y, x came first.
Before(x, y) ==
    \A i, j \in DOMAIN ddlLog : (ddlLog[i] = x /\ ddlLog[j] = y) => i < j

\* The current run is past schema setup: it fetches or inserts chunks.
Loading == pc \in {"fetch", "insert", "ckpt", "complete"}

\* C34: whenever schema setup runs for a job, a configured pre-schema script
\* is executed before the target table is dropped and created, a configured
\* post-schema script is executed after the create, and all of these are
\* complete before the first chunk is inserted.
C34_SetupOrder ==
    /\ Before("pre", "drop") /\ Before("pre", "create") /\ Before("pre", "post")
    /\ Before("drop", "create") /\ Before("create", "post")
    /\ ((Ran("drop") \/ Ran("create")) /\ cfg.pre) => Ran("pre")
    /\ (Loading /\ Ran("drop")) => Ran("create")
    /\ (Loading /\ Ran("create") /\ cfg.post) => Ran("post")

\* C37: a job without sort columns run by data_loader.py ignores a stored
\* checkpoint: whatever Resume Position its key holds when the run starts,
\* the run decides on schema setup as it would with a fresh store (from
\* the recreate flag alone), and its fetch hands the whole source to the
\* transform chain.
C37_SingleShotIgnoresCheckpoint ==
    [][(cfg.path = "dl" /\ ~uses_paging) =>
          /\ (pc \notin Running /\ pc' \in Running)
                => (pc' = "extract" <=> NeedsSchemaSetup(0, cfg'.recreate))
          /\ (pc = "fetch" /\ pc' = "insert")
                => rows' = apply_plugin_chain(Source, cfg.plugins).rows]_vars

\* The backing file exists and holds something other than a JSON object.
CorruptStore == file.kind \in {"badjson", "nondict", "undecodable"}

\* C35: a corrupt store does not abort a checkpoint write: a set
\* (write_checkpoint, write_keyset_checkpoint, write_checkpoint_keyed) that
\* finds the backing file corrupt does not raise, and the file it puts in
\* place is a valid store that holds the written entry.
C35_SetOverCorruptStore ==
    [][\A p \in Procs :
          /\ (CorruptStore /\ procs[p].pc = "idle" /\ procs'[p].op = "set")
                => procs'[p].ret.exc = "none"
          /\ (procs[p].pc = "written" /\ procs'[p].pc = "returned")
                => /\ file'.kind = "ok"
                   /\ KeyFor(p) \in DOMAIN file'.data
                   /\ file'.data[KeyFor(p)] = ValueFor(p)]_vars

\* C36: offset windows tile the source: in offset mode, once a chunk has
\* been inserted and the job goes on to the next fetch, the new offset is
\* the old offset plus the number of rows the fetch returned from the
\* source, whatever number of rows the transform chain made of them; the
\* next window starts where this one ended.
C36_OffsetWindowsTile ==
    [][(Strategy = "offset" /\ pc = "ckpt" /\ pc' = "fetch")
          => offset' = offset + Len(FetchOffset(offset, CHUNK_SIZE))]_vars

\* C38: keyset never restarts from the beginning mid-run: the fetch that
\* follows an inserted chunk carries the cursor predicate, built from the
\* sort and unique values of the last inserted row, whatever these values
\* are (NULL included); the unfiltered first-chunk query is not issued again.
C38_KeysetNeverRestarts ==
    (call # <<>> /\ call.fn = "keyset" /\ call.done)
        => /\ call.ret.query = "after_cursor"
           /\ call.ret.params = <<call.arg.last_row.sort, call.arg.last_row.sort,
                                  call.arg.last_row.unique>>

\* The step leaves the entry of every key other than k as it was.
OtherEntriesKept(k) ==
    \A x \in DOMAIN file.data \ {k} :
        x \in DOMAIN file'.data /\ file'.data[x] = file.data[x]

\* C39: within one process, a checkpoint set for one job key leaves the
\* stored entry of every other key unchanged, and a checkpoint get never
\* changes the store; sets by the jobs that run interleaved in one process
\* do not alter entries under keys other than their own.
C39_CheckpointFrame ==
    [][\A i \in 1..2 :
          jobs'[i] # jobs[i]
            => IF jobs'[i].got # NotRead
               THEN file' = file
               ELSE /\ OtherEntriesKept(KeyOf(jobs[i].fl, jobs[i].id))
                    /\ file'.data[KeyOf(jobs[i].fl, jobs[i].id)] = jobs'[i].pos]_vars

\* C39's case: two jobs with different keys have each set a position, the
\* second one while the first one's entry was stored; both entries are
\* there, and a get has returned one of them.
C39_Witness ==
    /\ KeyOf(jobs[1].fl, jobs[1].id) # KeyOf(jobs[2].fl, jobs[2].id)
    /\ DOMAIN file.data = {KeyOf(jobs[i].fl, jobs[i].id) : i \in 1..2}
    /\ file.data[KeyOf(jobs[1].fl, jobs[1].id)] = PosVal(jobs[1].fl, 1)
    /\ file.data[KeyOf(jobs[2].fl, jobs[2].id)] = PosVal(jobs[2].fl, 2)
    /\ jobs[1].got = PosVal(jobs[1].fl, 1)

====
